---- MODULE Spec2Model ----
(***************************************************************************)
(* A model of the trading control loop of auto-trading-bot:                *)
(* TradingBot (src/trading_bot.py), the ledger and predictor it calls      *)
(* (src/data_manager.py) and the watchlist reconciler that                 *)
(* src/test_dynamic_ticker.py exercises.                                   *)
(*                                                                         *)
(* Prices are integers (KRW).  Rates are kept in per mille and every       *)
(* comparison of a rate is cross-multiplied, so no division is rounded:    *)
(*   (c - e) / e >= 0.02      is   (c - e) * 1000 >= 20 * e                *)
(*   c >= e * (1 - 0.015)     is   c * 1000 >= e * (1000 - 15)             *)
(* The one comparison in which the doubles of the program round the other  *)
(* way is the loss side of the cooldown gate: 1 + 0.015 is the double just  *)
(* below 1.015, and 1000 * (1 + 0.015) is 1014.9999999999999 (see           *)
(* TieRoundsDown).                                                          *)
(*                                                                         *)
(* A thread of the bot is taken step by step: a step ends where the thread *)
(* waits for the exchange, the ledger, the recommender or a fit, and the   *)
(* steps of the other threads fall in between.                             *)
(***************************************************************************)
EXTENDS Integers, Sequences, FiniteSets, TLC

\* Python's None, where a ticker or a string is expected.
None == "None"

\* The instruments of the model.  "BTC" is the default of os.getenv("TICKER").
Tickers == {"BTC", "ETH"}

\* ------------------------------------------------------------------ bounds
\* The most trading-loop threads start() may have created.
MaxThreads == 2
\* The most sells counted in one session.
MaxTrades == 2
\* The largest absence count the reconciler is followed to.
MaxAbsence == 3
\* The concurrent callers of update_recommendations_async and of
\* update_coin_recommendations.
MaxCallers == 2
\* The recommendation workers in flight at once.
MaxWorkers == 2
\* The most open rows the ledger is followed to.
MaxOpen == 2
\* The most fits a force_retrain is followed to.
MaxFits == 2

\* ------------------------------------------------------- program constants
\* TARGET_PROFIT 0.02, STOP_LOSS 0.02, REBUY_THRESHOLD 0.015, in per mille.
target_profit == 20
stop_loss == 20
rebuy_threshold == 15
\* The values of TRADE_AMOUNT in the environment that are followed, in KRW: the
\* default, and one below the minimum buy notional.
DefaultTradeAmount == 10000
TradeAmounts == {4000, DefaultTradeAmount}
\* The two minimum order notionals, in KRW.
min_buy_amount == 5000
min_order_amount == 4990
\* RETRAIN_THRESHOLD
retrain_threshold == 10
\* The eviction threshold of the reconciler (spec 4.2, step 4).
evict_threshold == 2

\* The exit reasons _check_exit_conditions passes to _execute_sell.
ReasonProfit == "Target Profit (2.0%)"
ReasonLoss == "Stop Loss (-2.0%)"
ReasonBand == "Bollinger Band Upper"
Reasons == {ReasonProfit, ReasonLoss, ReasonBand}

\* The scan windows of the recommender: scan_index 50 is the window 0-50,
\* scan_index 100 the window 50-100 (batch_size 50).
ScanIndexes == {50, 100}

VARIABLES
    trade_amount,           \* self.trade_amount: TRADE_AMOUNT, read once
    is_running,             \* self.is_running
    tickers,                \* self.tickers: the watchlist, a list
    positions,              \* self.positions: dict ticker -> position
    sold_coins_cooldown,    \* self.sold_coins_cooldown: dict ticker -> entry
    session_trades,         \* self.session_trades
    session_wins,           \* self.session_wins
    recommended_coins,      \* self.recommended_coins: the cached batch
    ticker_absence_count,   \* self.ticker_absence_count: dict ticker -> n
    ticker_origin_range,    \* self.ticker_origin_range: dict ticker -> scan
    is_updating_recommendations,    \* self.is_updating_recommendations
    callers,                \* the callers of the two refresh calls
    workers,                \* the _recommendation_worker threads in flight
    total_trades,           \* the ledger's count of closed trades
    open_trades,            \* the ids of the ledger's open rows
    model,                  \* self.learner.model: 0 is None, n the n-th fit
    loops,                  \* the _trading_loop threads
    timers,                 \* the _auto_recommendation_timer threads
    api_pc,                 \* where the caller of start()/stop() is
    ev                      \* the last handler that ran, with its inputs

refresh_vars == <<is_updating_recommendations, callers, workers>>

ledger_vars == <<total_trades, open_trades>>

vars == <<trade_amount, is_running, tickers, positions, sold_coins_cooldown,
          session_trades, session_wins, recommended_coins, ticker_absence_count,
          ticker_origin_range, refresh_vars, ledger_vars, model, loops,
          timers, api_pc, ev>>

\* ----------------------------------------------------------------- helpers
Range(s) == {s[i] : i \in 1..Len(s)}

\* ticker in self.tickers
InList(s, t) == \E i \in 1..Len(s) : s[i] = t

\* list.remove(t): drops the first occurrence of t.
RECURSIVE ListRemove(_, _)
ListRemove(s, t) ==
    IF s = <<>> THEN <<>>
    ELSE IF Head(s) = t THEN Tail(s)
    ELSE <<Head(s)>> \o ListRemove(Tail(s), t)

\* The sequences over S without repetition, of length 0..n.
RECURSIVE Perms(_, _)
Perms(S, n) ==
    IF n = 0 THEN {<<>>}
    ELSE {<<>>} \cup {<<x>> \o p : x \in S, p \in Perms(S, n - 1)}

NoDupSeqs(S) == {s \in Perms(S, Cardinality(S)) : Cardinality(Range(s)) = Len(s)}

\* A Python dict is a function whose DOMAIN is its keys.
EmptyDict == [t \in {} |-> None]

\* d[k] = v
DictSet(d, k, v) == [x \in DOMAIN d \cup {k} |-> IF x = k THEN v ELSE d[x]]

\* del d[k]
DictDel(d, k) == [x \in DOMAIN d \ {k} |-> d[x]]

\* What get_status() returns of the tables, with the closes a trading thread
\* was in the middle of when it was called.
NoStatus == [tickers |-> <<>>, positions |-> {}, closing |-> {}]

\* What an event carries for the count of closed trades when get_statistics
\* was not read.
NoCount == -1


\* The record every handler leaves in ev: which handler ran, in which thread,
\* for which instrument, what the exchange answered and what came of it.
\* rerun marks a recovery that follows a recovery with the same holdings and
\* ran with no step of another thread in between, full that every held
\* instrument had a position when it began; seen is what a get_status()
\* returned; wrote names the tables the handler has changed, from its first
\* step to this one; after_release marks a buy of the evaluation that released
\* the instrument; m0 is the model a training found; count is the number of
\* closed trades get_statistics answered to a sell.
NoEvent ==
    [kind |-> "init", th |-> 0, t |-> None, price |-> 0, out |-> "",
     released |-> FALSE, batch |-> {}, rng |-> 0, removed |-> {},
     ok |-> TRUE, hs |-> <<>>, pa |-> <<>>, rerun |-> FALSE,
     seen |-> NoStatus, fit |-> "none", band |-> FALSE,
     pred |-> <<0, 0>>, feat |-> [rsi |-> 0, bb |-> 0],
     qty |-> 0, actual |-> 0, bid |-> 0, retrain |-> FALSE,
     wrote |-> {}, full |-> FALSE, after_release |-> FALSE, m0 |-> 0,
     count |-> NoCount]

Ev(kind) == [NoEvent EXCEPT !.kind = kind]

\* ----------------------------------------------------------------- threads
Threads == 1..MaxThreads

\* The threads that can be in a training: the loop threads, and as 0 the
\* thread of the control surface that calls force_retrain.
Trainers == Threads \cup {0}

\* The threads that call update_recommendations_async or
\* update_coin_recommendations.
Callers == 1..MaxCallers

\* What a thread holds of a position or of a cooldown entry before it has
\* read one.
NoPosition == [trade_id |-> None, entry_price |-> 0, amount |-> 0]
NoInfo == [exit_price |-> 0, reason |-> ""]

\* A _trading_loop thread: where it is (pc; ret is where it goes on after a
\* training or a recovery), and its local variables.
\*   the tick: exitq, the positions its exit loop has still to visit; idx,
\*     the index of its entry loop in self.tickers; closed, the instruments
\*     whose position this tick has closed so far; pre, the watchlist as the
\*     entry loop found it at its first element; visited, the elements the
\*     entry loop has taken since;
\*   an exit: t, the instrument; pos, the position as the thread read it or,
\*     after its own writes, left it; ref, whether the dict it holds is still
\*     the one in self.positions; price, reason and band, the exit price, the
\*     rule that matched and whether the price was in the upper band; actual,
\*     bid and qty, what the holdings and the order book answered and the
\*     quantity of the order; pre_w, whether the instrument was in the
\*     watchlist when its sell order succeeded;
\*   a buy: buy, the price _execute_buy read; tid, the id of the row
\*     save_trade_entry has inserted;
\*   an entry: info, the cooldown entry read; sig, whether both signals hold;
\*     pred and feat, the prediction and the features; released, whether this
\*     evaluation has released the instrument;
\*   a recovery: hs, the holdings; i, the index of the next item; ok, whether
\*     the holdings call answered; rerun, solo and full as in the event;
\*   a training: m0, the model it found; mine, whether self.model is still
\*     the classifier this training created;
\*   wrote: the tables the handler in progress has changed.
NoLoop ==
    [pc |-> "none", ret |-> "none", exitq |-> {}, idx |-> 0, closed |-> {},
     pre |-> <<>>, visited |-> <<>>, t |-> None, pos |-> NoPosition,
     ref |-> FALSE, price |-> 0, reason |-> "", band |-> FALSE,
     actual |-> 0, bid |-> 0, qty |-> 0, pre_w |-> FALSE, info |-> NoInfo,
     sig |-> FALSE, pred |-> <<0, 0>>, feat |-> [rsi |-> 0, bb |-> 0],
     released |-> FALSE, hs |-> <<>>, i |-> 0, ok |-> TRUE, rerun |-> FALSE,
     solo |-> FALSE, full |-> FALSE, m0 |-> 0, mine |-> FALSE, buy |-> 0,
     tid |-> None, wrote |-> {}]

\* The fields as __init__ sets them, before its call of _recover_positions,
\* for a ledger of n closed trades and the model m that load_model found.
InitWith(n, m) ==
    /\ trade_amount \in TradeAmounts
    /\ is_running = FALSE
    /\ tickers = <<"BTC">>
    /\ positions = EmptyDict
    /\ sold_coins_cooldown = EmptyDict
    /\ session_trades = 0
    /\ session_wins = 0
    /\ recommended_coins = <<>>
    /\ ticker_absence_count = EmptyDict
    /\ ticker_origin_range = EmptyDict
    /\ is_updating_recommendations = FALSE
    /\ callers = [c \in Callers |-> "idle"]
    /\ workers = 0
    /\ total_trades = n
    /\ open_trades = {}
    /\ model = m
    /\ loops = [th \in Trainers |-> NoLoop]
    /\ timers = [th \in Threads |-> "none"]
    /\ ev = NoEvent

\* A first run: an empty ledger and no model file.
InitFields == InitWith(0, 0)

\* ------------------------------------------------------ watchlist reconciler
\* TradingBot._manage_tickers_dynamically(recs) of backend/core/trading_bot.py,
\* which src/test_dynamic_ticker.py calls: spec 4.2.  recs is the ranked
\* batch, scan the coin selector's scan_index (the batch's origin range).

\* Step 1: the batch's new instruments join the watchlist, in rank order.
TickersWithBatch(recs) ==
    tickers \o SelectSeq(recs, LAMBDA t : ~InList(tickers, t))

\* Steps 1-3: the absence count of every instrument after the batch.
AbsentIncAllRanges(recs, scan) ==
    [t \in Range(recs) \cup DOMAIN ticker_absence_count |->
        IF t \in Range(recs) THEN 0
        ELSE IF t \in DOMAIN ticker_origin_range
             THEN ticker_absence_count[t] + 1
             ELSE ticker_absence_count[t]]

AbsenceAfter(recs, scan) ==
    [t \in Range(recs) \cup DOMAIN ticker_absence_count |->
        IF t \in Range(recs) THEN 0
        ELSE IF t \in DOMAIN ticker_origin_range
                /\ ticker_origin_range[t] = scan
             THEN ticker_absence_count[t] + 1
             ELSE ticker_absence_count[t]]

\* An origin range that is set when the entry is created and never refreshed.
OriginKeptOld(recs, scan) ==
    [t \in Range(recs) \cup DOMAIN ticker_origin_range |->
        IF t \in DOMAIN ticker_origin_range
        THEN ticker_origin_range[t] ELSE scan]

\* Step 1: the origin range of every instrument after the batch.
OriginAfter(recs, scan) ==
    [t \in Range(recs) \cup DOMAIN ticker_origin_range |->
        IF t \in Range(recs) THEN scan ELSE ticker_origin_range[t]]

\* Step 4: the entries to evict, given the counts and origin ranges after
\* steps 1-3.  Step 3 leaves the entries of another origin range untouched, so
\* the entries step 4 looks at are those of the batch's own range.
EvictedLate(count, origin, scan) ==
    {t \in DOMAIN count : /\ origin[t] = scan
                          /\ count[t] > evict_threshold
                          /\ t \notin DOMAIN positions}

EvictedPositioned(count, origin, scan) ==
    {t \in DOMAIN count : origin[t] = scan /\ count[t] >= evict_threshold}

Evicted(count, origin, scan) ==
    {t \in DOMAIN count : /\ origin[t] = scan
                          /\ count[t] >= evict_threshold
                          /\ t \notin DOMAIN positions}

ManageTickersDynamically(recs, scan) ==
    LET count == AbsenceAfter(recs, scan)
        origin == OriginAfter(recs, scan)
        gone == Evicted(count, origin, scan)
    IN  /\ \A t \in DOMAIN count : count[t] <= MaxAbsence
        /\ tickers' = SelectSeq(TickersWithBatch(recs), LAMBDA t : t \notin gone)
        /\ ticker_absence_count' = [t \in DOMAIN count \ gone |-> count[t]]
        /\ ticker_origin_range' = [t \in DOMAIN origin \ gone |-> origin[t]]
        /\ ev' = [Ev("reconcile") EXCEPT !.batch = Range(recs), !.rng = scan,
                                       !.removed = gone]
        /\ UNCHANGED <<is_running, positions, sold_coins_cooldown,
                       session_trades, session_wins, recommended_coins,
                       refresh_vars, ledger_vars, model, loops, timers,
                       api_pc, trade_amount>>

\* The ranked batches of the model: one instrument or more, none twice.
Batches == NoDupSeqs(Tickers) \ {<<>>}

Reconcile ==
    \E recs \in Batches, scan \in ScanIndexes :
        ManageTickersDynamically(recs, scan)

\* The test's bot.positions['ETH'] = {'entry_price': 3000, 'amount': 0.1, ...}:
\* a position with no trade_id (the amount is kept as 1).
TestPosition == [trade_id |-> None, entry_price |-> 3000, amount |-> 1]

InjectPosition ==
    \E t \in Tickers :
        /\ t \notin DOMAIN positions
        /\ positions' = DictSet(positions, t, TestPosition)
        /\ ev' = [Ev("inject") EXCEPT !.t = t]
        /\ UNCHANGED <<is_running, tickers, sold_coins_cooldown,
                       session_trades, session_wins, recommended_coins,
                       refresh_vars, ticker_absence_count, ticker_origin_range,
                       trade_amount,
                       ledger_vars, model, loops, timers, api_pc>>

\* del self.positions[ticker] of _execute_sell when the holding has vanished:
\* the position goes, the watchlist entry stays.
DropPosition ==
    \E t \in DOMAIN positions :
        /\ positions' = DictDel(positions, t)
        /\ ev' = [Ev("drop") EXCEPT !.t = t]
        /\ UNCHANGED <<is_running, tickers, sold_coins_cooldown,
                       session_trades, session_wins, recommended_coins,
                       refresh_vars, ticker_absence_count, ticker_origin_range,
                       trade_amount,
                       ledger_vars, model, loops, timers, api_pc>>

\* The bot of the test: constructed against an exchange that holds nothing.
InitRec ==
    /\ InitFields
    /\ api_pc = "idle"

NextRec == Reconcile \/ InjectPosition \/ DropPosition

SpecRec == InitRec /\ [][NextRec]_vars

\* ------------------------------------------------------------------ claims
\* This step reconciled a batch that omits t, whose entry has the batch's
\* origin range.
OmittedBy(t) ==
    /\ ev'.kind = "reconcile"
    /\ InList(tickers, t)
    /\ t \in DOMAIN ticker_origin_range
    /\ ticker_origin_range[t] = ev'.rng
    /\ t \notin ev'.batch

\* C1. Hysteresis: an instrument without a position whose entry has origin
\* range R and absence count 0 (it was in the last batch of R) has count 1 and
\* is still watchlisted after one batch of R that omits it, and is out of the
\* watchlist after the second such batch in a row.
C1_Hysteresis ==
    [][\A t \in Tickers :
          (OmittedBy(t) /\ t \notin DOMAIN positions) =>
              /\ ticker_absence_count[t] = 0 =>
                    /\ InList(tickers', t)
                    /\ ticker_absence_count'[t] = 1
              /\ ticker_absence_count[t] = 1 =>
                    /\ ~InList(tickers', t)
                    /\ t \notin DOMAIN ticker_absence_count']_vars

\* A batch has just evicted an instrument that holds no position.
C1_Witness ==
    /\ ev.kind = "reconcile"
    /\ \E t \in ev.removed : t \notin DOMAIN positions /\ ~InList(tickers, t)

\* C2. Origin-range isolation: a batch of origin range B leaves the absence
\* count, the origin range and the membership of every entry of another origin
\* range whose instrument is not in the batch as they were.
C2_OriginIsolation ==
    [][\A t \in Tickers :
          (/\ ev'.kind = "reconcile"
           /\ InList(tickers, t)
           /\ t \in DOMAIN ticker_origin_range
           /\ ticker_origin_range[t] # ev'.rng
           /\ t \notin ev'.batch) =>
              /\ InList(tickers', t)
              /\ t \in DOMAIN ticker_origin_range'
              /\ ticker_origin_range'[t] = ticker_origin_range[t]
              /\ ticker_absence_count'[t] = ticker_absence_count[t]]_vars

\* An entry of absence count 1 under one origin range has just been left alone
\* by a batch of the other range that omits it.
C2_Witness ==
    /\ ev.kind = "reconcile"
    /\ \E t \in Tickers :
          /\ InList(tickers, t)
          /\ t \notin ev.batch
          /\ t \in DOMAIN ticker_origin_range
          /\ ticker_origin_range[t] # ev.rng
          /\ ticker_absence_count[t] = 1

\* C3. Position protection: no batch removes from the watchlist an instrument
\* that holds a position, whatever its absence count.
C3_PositionProtection ==
    [][\A t \in Tickers :
          (/\ ev'.kind = "reconcile"
           /\ InList(tickers, t)
           /\ t \in DOMAIN positions
           /\ t \in DOMAIN positions') => InList(tickers', t)]_vars

\* A positioned instrument is watchlisted with an absence count past the
\* eviction threshold.
C3_Witness ==
    /\ ev.kind = "reconcile"
    /\ \E t \in DOMAIN positions :
          /\ InList(tickers, t)
          /\ t \notin ev.batch
          /\ t \in DOMAIN ticker_absence_count
          /\ ticker_absence_count[t] > evict_threshold

\* ------------------------------------------------------------ the exchange
\* The features extract_features derives from the candles, as far as the bot
\* reads them: rsi, and bb_position in percent.  NoFeatures stands for candles
\* too few to derive any.
NoFeatures == [rsi |-> 0, bb |-> 0]
Oversold == [rsi |-> 25, bb |-> 50]
LowBand == [rsi |-> 50, bb |-> 10]
HighBand == [rsi |-> 50, bb |-> 97]

\* What a fitted predictor answers: a direction and a confidence in per mille.
Down == <<0, 300>>
UpAtThreshold == <<1, 700>>
Up == <<1, 800>>

\* MODEL_CONFIDENCE_THRESHOLD 0.7, in per mille.
confidence_threshold == 700

\* A call of get_current_price or of get_orderbook_bid_price that raises
\* instead of answering.
Raises == -1

\* A call of get_ohlcv that raises instead of answering: there are no
\* candles to derive features from.
CandlesRaise == [rsi |-> Raises, bb |-> Raises]

\* What the outside answers in a run.  oks: whether get_holdings answers;
\* held: the instruments the account can hold; amounts: the held amounts;
\* avgs: the average costs; prices: get_current_price, 0 for None, Raises
\* for an exception; bids: get_orderbook_bid_price, 0 for None, Raises for an
\* exception; buys: the price _execute_buy reads, 0 for None, Raises for an
\* exception; orders: whether an order succeeds (FALSE: the exchange
\* answers None, or the call raises; both end the handler with the tables
\* as they are); dbs: whether save_trade_entry returns an id
\* (FALSE: it raises); exits: whether the statements of update_trade_exit run
\* (FALSE: one raises and the method catches it); stats: whether
\* get_statistics answers (FALSE: it raises); datas: whether
\* get_learning_data answers (FALSE: it raises); feats: the features of the
\* candles get_ohlcv answers, CandlesRaise when it raises; preds: the
\* predictions; fits: how a training ends; recs: the lists of the
\* recommender.
Exchange ==
    [oks |-> {TRUE}, prices |-> {Raises, 0, 1250}, amounts |-> {10},
     avgs |-> {0, 1000}, bids |-> {0}, buys |-> {1000},
     orders |-> {TRUE}, dbs |-> {TRUE}, exits |-> {TRUE},
     stats |-> {TRUE}, datas |-> {TRUE},
     feats |-> {Oversold}, preds |-> {Down, Up},
     fits |-> {"ok"}, recs |-> {<<"ETH">>}, held |-> Tickers]

\* What get_holdings answers: a list of holdings, no instrument twice.
Holding(X, t) ==
    {[ticker |-> t, amount |-> a, avg_buy_price |-> p] :
        a \in X.amounts, p \in X.avgs}

RECURSIVE HoldingListsOver(_, _)
HoldingListsOver(X, order) ==
    IF order = <<>> THEN {<<>>}
    ELSE {<<h>> \o rest : h \in Holding(X, Head(order)),
                          rest \in HoldingListsOver(X, Tail(order))}

HoldingLists(X) ==
    UNION {HoldingListsOver(X, order) : order \in NoDupSeqs(X.held)}

HeldTickers(hs) == {hs[i].ticker : i \in 1..Len(hs)}

\* ------------------------------------------------------------------ the bot
\* The tables of the bot as one value, so that a handler is a function of it.
Bot ==
    [tickers |-> tickers, positions |-> positions,
     cooldown |-> sold_coins_cooldown, trades |-> session_trades,
     wins |-> session_wins, total |-> total_trades, open |-> open_trades,
     model |-> model]

SetBot(b) ==
    /\ tickers' = b.tickers
    /\ positions' = b.positions
    /\ sold_coins_cooldown' = b.cooldown
    /\ session_trades' = b.trades
    /\ session_wins' = b.wins
    /\ total_trades' = b.total
    /\ open_trades' = b.open
    /\ model' = b.model

\* self.tickers.append(t) after the test "t not in self.tickers".
AppendIfAbsent(s, t) == IF InList(s, t) THEN s ELSE Append(s, t)

\* self.tickers.remove(t) after the test "t in self.tickers".
RemoveIfPresent(s, t) == IF InList(s, t) THEN ListRemove(s, t) ELSE s

\* ------------------------------------------------------- _recover_positions
\* A recovery that takes every held instrument for untracked.
RecoverUntracked(b, t) == FALSE

\* if ticker in self.positions: continue
recover_tracked(b, t) == t \in DOMAIN b.positions

\* The entry price of a recovered position: the average cost, or the current
\* price (0 for None) when the cost is not positive.
recover_entry(item, price) ==
    IF item.avg_buy_price <= 0 THEN price ELSE item.avg_buy_price

\* The writes of one item: nothing when the entry price is not positive, else
\* the position, whatever the table holds for the instrument by now, and the
\* watchlist entry if absent.
recover_write(b, item, entry) ==
    IF entry <= 0 THEN b
    ELSE [b EXCEPT
            !.positions = DictSet(@, item.ticker,
                                  [trade_id |-> "recovered",
                                   entry_price |-> entry,
                                   amount |-> item.amount]),
            !.tickers = AppendIfAbsent(@, item.ticker)]

\* One item of the holdings list, with no other thread in between: a held
\* instrument the bot does not track becomes a position at the average cost,
\* or at the current price pa[t] when the cost is not positive, or is skipped
\* when neither is.
RecoverItem(b, item, pa) ==
    IF recover_tracked(b, item.ticker) THEN b
    ELSE recover_write(b, item, recover_entry(item, pa[item.ticker]))

\* get_current_price is called for the item and raises: the except clause
\* that encloses the whole loop ends the recovery there.
recover_raises(b, item, pa) ==
    /\ ~recover_tracked(b, item.ticker)
    /\ item.avg_buy_price <= 0
    /\ pa[item.ticker] = Raises

\* The items in the order of the list, up to the end or to the item whose
\* price call raises; what the items before it wrote stays.
RECURSIVE RecoverItems(_, _, _)
RecoverItems(b, hs, pa) ==
    IF hs = <<>> THEN b
    ELSE IF recover_raises(b, Head(hs), pa) THEN b
    ELSE RecoverItems(RecoverItem(b, Head(hs), pa), Tail(hs), pa)

\* ok: get_holdings answered (an exception is caught, nothing is done).
recover_positions(b, ok, hs, pa) ==
    IF ok THEN RecoverItems(b, hs, pa) ELSE b

\* --------------------------------------------- _sync_positions_with_exchange
RECURSIVE RemoveEach(_, _)
RemoveEach(s, S) ==
    IF S = {} THEN s
    ELSE LET t == CHOOSE x \in S : TRUE
         IN  RemoveEach(RemoveIfPresent(s, t), S \ {t})

\* A drift sync that leaves the watchlist alone.
SyncKeepsWatchlist(b, ok, held) ==
    IF ~ok THEN b
    ELSE [b EXCEPT !.positions = [t \in DOMAIN b.positions \cap held |->
                                     b.positions[t]]]

sync_positions_with_exchange(b, ok, held) ==
    IF ~ok THEN b
    ELSE LET removed == DOMAIN b.positions \ held
         IN  [b EXCEPT
                !.positions = [t \in DOMAIN b.positions \ removed |->
                                  b.positions[t]],
                !.tickers = RemoveEach(@, removed)]

\* ------------------------------------------------------------- the predictor
\* learner.model after train_initial_model has replaced it by a new classifier
\* whose fit then failed.
Unfitted == -1

\* The samples get_learning_data asks for (min_samples=30).
learning_min_samples == 30

\* A predict that asks the classifier whether or not there is a model.
PredictAnyway(m, answer) == answer

\* ModelLearner.predict: (0, 0.0) while no model is trained, else the model's
\* answer.
predict(m, answer) == IF m = 0 THEN <<0, 0>> ELSE answer

\* ModelLearner.train_initial_model, from the model m it finds to the model
\* it leaves when no other training runs beside it: fit is "ok", or "split"
\* when train_test_split raises (the model is not yet replaced), or "fit"
\* when the fit of the new classifier raises.  The new classifier is in
\* self.model, unfitted, from line 288 to the end of the fit.
train_initial_model(m, fit) ==
    CASE fit = "ok" -> (IF m < 0 THEN 1 ELSE m + 1)
      [] fit = "split" -> m
      [] OTHER -> Unfitted

\* A trigger that also fires on an empty ledger.
RetrainDueAtZero(total) == total % retrain_threshold = 0

\* The test of the retraining trigger on the ledger's count of closed trades.
retrain_due(total) == total % retrain_threshold = 0 /\ total > 0

\* TradingBot._retrain_model trains when get_learning_data has its samples.
enough_samples(total) == total >= learning_min_samples

\* --------------------------------------------------- _check_exit_conditions
\* The first exit rule that matches, or None: profit_rate >= target_profit,
\* profit_rate <= -stop_loss, bb_position > 0.95.
ExitBandFirst(entry_price, cp, feat) ==
    IF feat.bb > 95 THEN ReasonBand
    ELSE IF (cp - entry_price) * 1000 >= target_profit * entry_price
    THEN ReasonProfit
    ELSE IF (cp - entry_price) * 1000 <= (0 - stop_loss) * entry_price
    THEN ReasonLoss
    ELSE None

exit_reason(entry_price, cp, feat) ==
    IF (cp - entry_price) * 1000 >= target_profit * entry_price
    THEN ReasonProfit
    ELSE IF (cp - entry_price) * 1000 <= (0 - stop_loss) * entry_price
    THEN ReasonLoss
    ELSE IF feat.bb > 95 THEN ReasonBand
    ELSE None

\* The id save_trade_entry returns, cursor.lastrowid: one more than the
\* rows of the table, of which none is ever deleted.
next_trade_id(b) == ToString(b.total + Cardinality(b.open) + 1)

\* save_trade_entry: a row with status 'open'.
save_trade_entry(b) == [b EXCEPT !.open = @ \cup {next_trade_id(b)}]

\* update_trade_exit: the row of the id becomes 'closed'.  An id that is in
\* no row (a recovered position) is skipped, and a row that is closed
\* already is written again and stays one closed row.  ok FALSE: a statement
\* raises before the commit, the except clause of the method logs it, and the
\* row stays open.
update_trade_exit(b, trade_id, ok) ==
    IF ok /\ trade_id \in b.open
    THEN [b EXCEPT !.total = @ + 1, !.open = @ \ {trade_id}]
    ELSE b

\* A vanished position closed as a sold one: counted as a trade of the session.
VanishedCounted(b, t) ==
    [b EXCEPT !.positions = DictDel(@, t), !.trades = @ + 1]

\* _execute_sell when the holdings do not list the instrument: the position
\* is deleted and the sell returns.
sell_vanished(b, t) == [b EXCEPT !.positions = DictDel(@, t)]

\* A sell that keeps the amount the position remembers.
KeepRemembered(amount, actual_amount) == amount

\* The balance sync of _execute_sell: the amount of the position after the
\* holdings are read, actual_amount being the amount they report.
synced_amount(amount, actual_amount) ==
    IF actual_amount # amount THEN actual_amount ELSE amount

\* Session counters that count the winning sales only.
CountWinsOnly(b, won) ==
    IF won THEN [b EXCEPT !.trades = @ + 1, !.wins = @ + 1] ELSE b

\* The session counters after a sell order that succeeded; won is
\* profit_rate > 0.
count_session(b, won) ==
    [b EXCEPT !.trades = @ + 1, !.wins = IF won THEN @ + 1 ELSE @]

\* Proceeds estimated at the exit price whatever the best bid.
EstimatedAtExit(amount, bid, exit_price) == amount * exit_price

\* The proceeds _execute_sell estimates: the amount at the best bid, or at the
\* exit price when the order book gives none (bid 0).
estimated_amount(amount, bid, exit_price) ==
    amount * (IF bid = 0 THEN exit_price ELSE bid)

\* The writes that close the position, in the order of the code.
sell_cooldown(b, t, exit_price, reason) ==
    [b EXCEPT !.cooldown =
        DictSet(@, t, [exit_price |-> exit_price, reason |-> reason])]

sell_remove_ticker(b, t) == [b EXCEPT !.tickers = RemoveIfPresent(@, t)]

sell_delete_position(b, t) == [b EXCEPT !.positions = DictDel(@, t)]


\* -------------------------------------------------- _check_entry_conditions
ai_signal(p) == p[1] = 1 /\ p[2] > confidence_threshold

oversold(feat) == feat.rsi < 30 \/ feat.bb < 20

\* 'Profit' in exit_reason
ContainsProfit(reason) == reason = ReasonProfit

\* The exit prices at which exit_price * (1 + 0.015) is an integer and the
\* product of the doubles is that integer: at every other exit price below
\* 8000 whose threshold is an integer the product is the double below it.
\* (exit_price * (1 - 0.015) is exact at every such exit price.)
ExactTies == {2200, 4200, 4400, 4600}

\* The double exit_price * (1 + 0.015) is below the threshold it stands for.
TieRoundsDown(exit_price) ==
    /\ (exit_price * (1000 + rebuy_threshold)) % 1000 = 0
    /\ exit_price \notin ExactTies

\* cooldown_closed with a strict comparison on the profit side.
CooldownStrict(info, cp) ==
    IF ContainsProfit(info.reason)
    THEN cp * 1000 > info.exit_price * (1000 - rebuy_threshold)
    ELSE IF TieRoundsDown(info.exit_price)
    THEN cp * 1000 < info.exit_price * (1000 + rebuy_threshold)
    ELSE cp * 1000 <= info.exit_price * (1000 + rebuy_threshold)

\* cooldown_closed without the gap on the loss side.
\* The cooldown gate: closed while the price is on the exit side of the
\* threshold, current_price >= exit_price * (1 - rebuy_threshold) after a
\* profit and current_price <= exit_price * (1 + rebuy_threshold) otherwise,
\* as the doubles of the program compare.
cooldown_closed(info, cp) ==
    IF ContainsProfit(info.reason)
    THEN cp * 1000 >= info.exit_price * (1000 - rebuy_threshold)
    ELSE IF TieRoundsDown(info.exit_price)
    THEN cp * 1000 < info.exit_price * (1000 + rebuy_threshold)
    ELSE cp * 1000 <= info.exit_price * (1000 + rebuy_threshold)

\* A buy that writes the ledger row although the order was rejected.
BuyKeepsRejected(b, order, db) ==
    IF db \/ ~order THEN save_trade_entry(b) ELSE b

\* The ledger after buy_market_order has answered order and, for a confirmed
\* order, save_trade_entry has returned db: nothing after a rejected order
\* (order FALSE) or when save_trade_entry raises (db FALSE), else the row of
\* the trade.
execute_buy(b, order, db) ==
    IF order /\ db THEN save_trade_entry(b) ELSE b

\* self.positions[ticker] = {...}, with the id save_trade_entry returned.  The
\* prices of the model divide trade_amount, so the quotient is exact.
buy_position(b, t, trade_id, buy_price) ==
    [b EXCEPT !.positions =
        DictSet(@, t, [trade_id |-> trade_id, entry_price |-> buy_price,
                       amount |-> trade_amount \div buy_price])]

\* A release that appends the instrument without looking for it.
ReleaseAppends(b, t) ==
    [b EXCEPT !.cooldown = DictDel(@, t), !.tickers = Append(@, t)]

\* The cooldown release: the entry is deleted and the instrument re-admitted.
release_cooldown(b, t) ==
    [b EXCEPT !.cooldown = DictDel(@, t), !.tickers = AppendIfAbsent(@, t)]

\* if ai_signal and oversold
both_signals(p, feat) == ai_signal(p) /\ oversold(feat)

\* ------------------------------------------------------------ toggle_ticker
\* A test that lets the last entry go.
KeepNone(list) == Len(list) > 0

\* The test that keeps one entry in the watchlist.
keep_one(list) == Len(list) > 1

\* A toggle that takes the instrument's position along with its watchlist
\* entry.
ToggleDropsPosition(b, t) ==
    IF InList(b.tickers, t)
    THEN IF Len(b.tickers) > 1
         THEN [b EXCEPT !.tickers = ListRemove(@, t),
                        !.positions = DictDel(@, t)]
         ELSE b
    ELSE [b EXCEPT !.tickers = Append(@, t)]

toggle_ticker(b, t) ==
    IF InList(b.tickers, t)
    THEN IF keep_one(b.tickers)
         THEN [b EXCEPT !.tickers = ListRemove(@, t)]
         ELSE b
    ELSE [b EXCEPT !.tickers = Append(@, t)]

\* ------------------------------------------------ _auto_recommendation_timer
\* The body after the recommender's answer: the top instrument joins the
\* watchlist unless it is watchlisted, positioned or the trade amount is below
\* the minimum.
\* An auto-add that does not look at the positions.
AutoAddPositioned(b, recs) ==
    IF recs = <<>> THEN b
    ELSE LET ticker == recs[1]
         IN  IF InList(b.tickers, ticker) THEN b
             ELSE IF trade_amount < min_buy_amount THEN b
             ELSE [b EXCEPT !.tickers = Append(@, ticker)]

auto_add(b, recs) ==
    IF recs = <<>> THEN b
    ELSE LET ticker == recs[1]
         IN  IF InList(b.tickers, ticker) THEN b
             ELSE IF ticker \in DOMAIN b.positions THEN b
             ELSE IF trade_amount < min_buy_amount THEN b
             ELSE [b EXCEPT !.tickers = Append(@, ticker)]

\* ------------------------------------------------- the exchange's answers
\* A failed get_holdings has no list.
HoldingAnswers(X) ==
    {h \in [ok : X.oks, hs : HoldingLists(X)] : ~h.ok => h.hs = <<>>}

\* The current prices the recovery of __init__ asks for: only for a held
\* instrument whose average cost is not positive, and for none after a call
\* that raised.
RecoverPrices(X, hs) ==
    {pa \in [Tickers -> X.prices \cup {0}] :
        \A t \in Tickers :
            IF \E i \in 1..Len(hs) :
                  /\ hs[i].ticker = t /\ hs[i].avg_buy_price <= 0
                  /\ \A j \in 1..(i - 1) :
                        hs[j].avg_buy_price > 0 \/ pa[hs[j].ticker] # Raises
            THEN pa[t] \in X.prices
            ELSE pa[t] = 0}

\* ------------------------------------------------------- steps of a thread
Frame(b, e) == SetBot(b) /\ ev' = e

\* The tables in which b differs from the bot as it is.
Changed(b) == {n \in DOMAIN b : b[n] # Bot[n]}

\* What the steps of a _trading_loop thread leave alone.
LoopFrame ==
    UNCHANGED <<is_running, recommended_coins, refresh_vars,
                ticker_absence_count, ticker_origin_range,
                trade_amount, timers, api_pc>>

\* The position a selling thread reads through the dict it holds: the one in
\* self.positions as long as that is still its dict.
PosOf(l) == IF l.ref THEN positions[l.t] ELSE l.pos

\* The loop threads after a step of thread th that leaves it as l and deletes
\* or replaces the positions of the instruments in gone: another thread that
\* holds the dict of such a position keeps it as it was.
Loops(th, l, gone) ==
    [x \in DOMAIN loops |->
        IF x = th THEN l
        ELSE IF loops[x].ref /\ loops[x].t \in gone
        THEN [loops[x] EXCEPT !.ref = FALSE, !.pos = positions[loops[x].t]]
        ELSE loops[x]]

\* The thread between two handlers: the locals of the handler are gone.
Rest(l) ==
    [NoLoop EXCEPT !.pc = l.pc, !.ret = l.ret, !.exitq = l.exitq,
                   !.idx = l.idx, !.closed = l.closed, !.pre = l.pre,
                   !.visited = l.visited]

\* The event of a step: the locals of the thread as the step leaves them.
LoopEvent(kind, out, l) ==
    [Ev(kind) EXCEPT !.out = out, !.t = l.t, !.price = l.price,
                     !.band = l.band, !.actual = l.actual, !.bid = l.bid,
                     !.qty = l.qty, !.pred = l.pred, !.feat = l.feat,
                     !.after_release = l.released, !.ok = l.ok, !.hs = l.hs,
                     !.full = l.full, !.m0 = l.m0]

\* A step of thread th in the middle of a handler: the bot becomes b, the
\* thread l, the event e.
Step(th, b, l, gone, e) ==
    LET w == loops[th].wrote \cup Changed(b)
    IN  /\ SetBot(b)
        /\ loops' = Loops(th, [l EXCEPT !.wrote = w], gone)
        /\ ev' = [e EXCEPT !.th = th, !.wrote = w]
        /\ LoopFrame

\* The step that ends a handler.
Last(th, b, l, gone, e) ==
    /\ SetBot(b)
    /\ loops' = Loops(th, Rest(l), gone)
    /\ ev' = [e EXCEPT !.th = th, !.wrote = loops[th].wrote \cup Changed(b)]
    /\ LoopFrame

\* Where the exit loop goes on, q being the positions it has still to visit.
ExitNext(q) == IF q = {} THEN "entry" ELSE "exit"

\* ------------------------------------------------------ __init__, start, stop
\* The call of _recover_positions that ends __init__: no other thread of the
\* bot exists yet.
ConstructRecover(X) ==
    /\ api_pc = "new"
    /\ \E h \in HoldingAnswers(X) :
        \E pa \in RecoverPrices(X, h.hs) :
            LET b == recover_positions(Bot, h.ok, h.hs, pa)
            IN  Frame(b, [Ev("recover") EXCEPT
                             !.ok = h.ok, !.hs = h.hs, !.pa = pa,
                             !.wrote = Changed(b),
                             !.full = HeldTickers(h.hs)
                                          \subseteq DOMAIN positions])
    /\ api_pc' = "idle"
    /\ UNCHANGED <<is_running, recommended_coins, refresh_vars,
                   ticker_absence_count, ticker_origin_range,
                   trade_amount, loops, timers>>

\* A thread slot start() can use: no thread in it, or one that has ended.
FreeSlot(th) ==
    /\ loops[th].pc \in {"none", "stopped"}
    /\ timers[th] \in {"none", "stopped"}

\* start(): nothing when the bot runs, else the flag and the two threads.
Start ==
    /\ api_pc = "idle"
    /\ IF is_running
       THEN UNCHANGED <<is_running, loops, timers, ev>>
       ELSE \E th \in Threads :
            /\ FreeSlot(th)
            /\ \A other \in Threads : FreeSlot(other) => th <= other
            /\ is_running' = TRUE
            /\ loops' = [loops EXCEPT ![th] = [NoLoop EXCEPT !.pc = "start"]]
            /\ timers' = [timers EXCEPT ![th] = "sleep"]
            /\ ev' = [Ev("start") EXCEPT !.th = th, !.out = "started"]
    /\ UNCHANGED <<tickers, positions, sold_coins_cooldown, session_trades,
                   session_wins, recommended_coins, refresh_vars,
                   ticker_absence_count, ticker_origin_range,
                   trade_amount, ledger_vars,
                   model, api_pc>>

\* stop(): nothing when the bot does not run, else the flag, and the join.
Stop ==
    /\ api_pc = "idle"
    /\ IF is_running
       THEN /\ is_running' = FALSE
            /\ api_pc' = "join"
            /\ ev' = [Ev("stop") EXCEPT !.out = "stopping"]
       ELSE UNCHANGED <<is_running, api_pc, ev>>
    /\ UNCHANGED <<tickers, positions, sold_coins_cooldown, session_trades,
                   session_wins, recommended_coins, refresh_vars,
                   ticker_absence_count, ticker_origin_range,
                   trade_amount, ledger_vars,
                   model, loops, timers>>

\* self.thread.join(timeout=5) returns: the thread has ended, or 5 s have
\* passed.
StopReturn ==
    /\ api_pc = "join"
    /\ api_pc' = "idle"
    /\ ev' = [Ev("stop") EXCEPT !.out = "stopped"]
    /\ UNCHANGED <<is_running, tickers, positions, sold_coins_cooldown,
                   session_trades, session_wins, recommended_coins,
                   refresh_vars, ticker_absence_count, ticker_origin_range,
                   trade_amount,
                   ledger_vars, model, loops, timers>>

\* ----------------------------------------------- _trading_loop, before the while
\* The test of self.learner.model.  Without a model _initial_training asks
\* for the candles of self.tickers[0] (an empty watchlist raises, and the
\* except clause ends the training); with one, _recover_positions is next.
LoopStart(th) ==
    /\ loops[th].pc = "start"
    /\ LET l == loops[th]
           trains == model = 0 /\ tickers # <<>>
       IN  Step(th, Bot,
                [l EXCEPT !.pc = IF trains THEN "train" ELSE "recover",
                          !.ret = "recover"],
                {},
                LoopEvent("loop_start",
                          IF trains THEN "training"
                          ELSE IF model = 0 THEN "error" ELSE "trained", l))

\* The thread after a training: _recover_positions after the initial one, the
\* rest of the exit loop after a retraining.
AfterTrain(l) ==
    [l EXCEPT !.pc = IF l.ret = "recover" THEN "recover"
                     ELSE IF l.ret = "api" THEN "none"
                     ELSE ExitNext(l.exitq),
              !.ret = "none"]

\* The ways a training can go: the initial one finds too few candles, or its
\* call of get_ohlcv raises ("none").
TrainFits(X, l) == IF l.ret = "recover" THEN X.fits ELSE X.fits \ {"none"}

\* _retrain_model after its call of get_learning_data: when the call raises,
\* the except clause of _retrain_model ends it; when it answers, nothing
\* without the samples, else retrain_model as far as the fit.
RetrainData(th, X) ==
    /\ loops[th].pc = "retrain"
    /\ \E data \in X.datas :
        LET l == loops[th]
            enough == enough_samples(total_trades)
            e == [LoopEvent("retrain",
                            IF ~data THEN "error"
                            ELSE IF enough THEN "training" ELSE "no_data",
                            l) EXCEPT !.retrain = TRUE, !.m0 = model]
        IN  IF data /\ enough
            THEN Last(th, Bot, [l EXCEPT !.pc = "train"], {}, e)
            ELSE Last(th, Bot, AfterTrain(l), {}, e)

\* force_retrain(), from the control surface, up to the call of
\* get_learning_data.
ForceRetrain ==
    /\ api_pc # "new"
    /\ loops[0].pc = "none"
    /\ model < MaxFits
    /\ loops' = [loops EXCEPT ![0] = [NoLoop EXCEPT !.pc = "retrain",
                                                    !.ret = "api"]]
    /\ ev' = Ev("force_retrain")
    /\ UNCHANGED <<is_running, tickers, positions, sold_coins_cooldown,
                   session_trades, session_wins, recommended_coins,
                   refresh_vars, ticker_absence_count, ticker_origin_range,
                   trade_amount,
                   ledger_vars, model, timers, api_pc>>

\* A training up to the fit: the candles or the learning data have arrived,
\* train_test_split has run, and the new classifier is assigned to self.model
\* (data_manager.py, line 288) before it is fitted.
TrainAssign(th, X) ==
    /\ loops[th].pc = "train"
    /\ \E f \in TrainFits(X, loops[th]) :
        LET l == loops[th]
            e == [LoopEvent("train", "", l) EXCEPT
                     !.fit = f, !.retrain = l.ret # "recover", !.m0 = model]
        IN  IF f \in {"none", "split"}
            THEN Last(th, [Bot EXCEPT !.model = train_initial_model(@, "split")],
                      AfterTrain(l), {}, e)
            ELSE LET w == l.wrote \cup {"model"}
                 IN  /\ SetBot([Bot EXCEPT !.model = Unfitted])
                     /\ loops' = [x \in DOMAIN loops |->
                                    IF x = th
                                    THEN [l EXCEPT !.pc = "train_fit",
                                                   !.m0 = model,
                                                   !.mine = TRUE,
                                                   !.wrote = w]
                                    ELSE [loops[x] EXCEPT !.mine = FALSE]]
                     /\ ev' = [e EXCEPT !.kind = "train_assign", !.th = th,
                                        !.wrote = w]
                     /\ LoopFrame

\* The fit returns or raises.  self.model is the fitted classifier when the
\* fit returned and no other training has replaced the classifier meanwhile.
TrainEnd(th, X) ==
    /\ loops[th].pc = "train_fit"
    /\ \E f \in X.fits \cap {"ok", "fit"} :
        LET l == loops[th]
        IN  Last(th,
                 IF f = "ok" /\ l.mine
                 THEN [Bot EXCEPT !.model = train_initial_model(l.m0, f)]
                 ELSE Bot,
                 AfterTrain(l), {},
                 [LoopEvent("train", "", l) EXCEPT
                     !.fit = f, !.retrain = l.ret # "recover"])

\* ------------------------------------------------------- _recover_positions
\* The events of the steps of a recovery before its end.
RecoverKinds == {"recover_holdings", "recover_item"}

\* get_holdings has answered.  The recovery repeats the one before it when
\* that one has just ended and had the same holdings.
RecoverBegin(th, X, l) ==
    \E h \in HoldingAnswers(X) :
        LET l1 == [l EXCEPT
                     !.pc = IF h.hs = <<>> THEN "recover_end"
                            ELSE "recover_item",
                     !.hs = h.hs, !.i = 1, !.ok = h.ok,
                     !.rerun = ev.kind = "recover" /\ ev.ok /\ h.ok
                                  /\ ev.hs = h.hs,
                     !.solo = TRUE,
                     !.full = HeldTickers(h.hs) \subseteq DOMAIN positions]
        IN  Step(th, Bot, l1, {}, LoopEvent("recover_holdings", "", l1))

RecoverHoldings(th, X) ==
    /\ loops[th].pc = "recover"
    /\ RecoverBegin(th, X, [loops[th] EXCEPT !.ret = "top"])

\* A further call of _recover_positions, by a thread that does nothing else.
Recover(th, X) ==
    /\ api_pc = "idle"
    /\ loops[th].pc = "none"
    /\ RecoverBegin(th, X, [loops[th] EXCEPT !.ret = "none"])

\* No step of another thread has fallen into the recovery of thread th.
Solo(th) == loops[th].solo /\ ev.th = th /\ ev.kind \in RecoverKinds

\* The thread after the item at l.i.
NextItem(l) ==
    [l EXCEPT !.i = @ + 1,
              !.pc = IF l.i + 1 > Len(l.hs) THEN "recover_end"
                     ELSE "recover_item"]

\* One item of the holdings, as far as the call of get_current_price: a
\* tracked instrument is passed over, an untracked one with an average cost
\* is written, and for one without a cost the price is asked.
RecoverNext(th) ==
    /\ loops[th].pc = "recover_item"
    /\ LET l == [loops[th] EXCEPT !.solo = Solo(th), !.price = 0]
           item == l.hs[l.i]
           l1 == [l EXCEPT !.t = item.ticker]
       IN  IF recover_tracked(Bot, item.ticker)
           THEN Step(th, Bot, NextItem(l1), {},
                     LoopEvent("recover_item", "tracked", l1))
           ELSE IF item.avg_buy_price > 0
           THEN Step(th, recover_write(Bot, item, recover_entry(item, 0)),
                     NextItem(l1), {},
                     LoopEvent("recover_item", "recovered", l1))
           ELSE Step(th, Bot, [l1 EXCEPT !.pc = "recover_price"], {},
                     LoopEvent("recover_item", "asking", l1))

\* get_current_price has returned.  When it raised, the except clause around
\* the whole loop ends the recovery: the items after this one are not looked
\* at.  When it answered (0 for None), the item is skipped without a price,
\* and written otherwise, over whatever position the table has for the
\* instrument by now.
RecoverPrice(th, X) ==
    /\ loops[th].pc = "recover_price"
    /\ \E p \in X.prices :
        LET l == [loops[th] EXCEPT !.solo = Solo(th), !.price = p]
            item == l.hs[l.i]
            over == p > 0 /\ item.ticker \in DOMAIN positions
        IN  IF p = Raises
            THEN Step(th, Bot, [l EXCEPT !.pc = "recover_end"], {},
                      LoopEvent("recover_item", "raised", l))
            ELSE Step(th, recover_write(Bot, item, recover_entry(item, p)),
                      NextItem(l), IF over THEN {item.ticker} ELSE {},
                      LoopEvent("recover_item",
                                IF p <= 0 THEN "skipped"
                                ELSE IF over THEN "overwritten"
                                ELSE "recovered",
                                l))

\* The end of _recover_positions: after the last item, or at once when the
\* holdings call failed or answered nothing.
RecoverEnd(th) ==
    /\ loops[th].pc = "recover_end"
    /\ LET l == loops[th]
       IN  Last(th, Bot, [l EXCEPT !.pc = l.ret, !.ret = "none"], {},
                [LoopEvent("recover", "", l) EXCEPT
                    !.rerun = l.rerun /\ Solo(th)])

\* ------------------------------------------------------ _trading_loop, a tick
\* A loop that ends whatever the flag says.
WhileNever(flag) == FALSE

\* while self.is_running, of _trading_loop and of _auto_recommendation_timer.
while_running(flag) == flag

\* The while test: the thread ends, or calls get_holdings for step 0.
LoopTop(th) ==
    /\ loops[th].pc = "top"
    /\ IF ~while_running(is_running)
       THEN Last(th, Bot, [NoLoop EXCEPT !.pc = "stopped"], {},
                 Ev("loop_stopped"))
       ELSE Last(th, Bot, [NoLoop EXCEPT !.pc = "sync"], {}, Ev("loop_top"))

\* Step 0 of a tick after get_holdings has answered:
\* _sync_positions_with_exchange, then list(self.positions.keys()) for the
\* exit loop.
SyncPositions(th, X) ==
    /\ loops[th].pc = "sync"
    /\ \E ok \in X.oks, held \in SUBSET X.held :
        LET b1 == sync_positions_with_exchange(Bot, ok, held)
            removed == DOMAIN positions \ DOMAIN b1.positions
        IN  /\ ~ok => held = {}
            /\ Last(th, b1,
                    [NoLoop EXCEPT !.pc = ExitNext(DOMAIN b1.positions),
                                   !.exitq = DOMAIN b1.positions,
                                   !.idx = 1, !.closed = removed],
                    removed,
                    [Ev("sync") EXCEPT !.ok = ok, !.batch = held,
                                       !.removed = removed])

\* --------------------------------------------------- _check_exit_conditions
\* Step 1 of a tick, one position of the snapshot: the test of line 481 and
\* the read of the position, up to the call of get_current_price.
LoopExit(th) ==
    /\ loops[th].pc = "exit"
    /\ \E t \in loops[th].exitq :
        LET l == [loops[th] EXCEPT !.exitq = @ \ {t}, !.t = t]
        IN  IF t \notin DOMAIN positions
            THEN Last(th, Bot, [l EXCEPT !.pc = ExitNext(l.exitq)], {},
                      LoopEvent("exit", "no_position", l))
            ELSE Step(th, Bot,
                      [l EXCEPT !.pc = "exit_price", !.pos = positions[t]],
                      {}, LoopEvent("exit_read", "", l))

\* get_current_price has returned: when it raised, the except clause of
\* _check_exit_conditions ends the evaluation; when it answered (0 for None),
\* the evaluation ends without a price, else it reads entry_price of the
\* position it holds and calls get_ohlcv.
ExitPrice(th, X) ==
    /\ loops[th].pc = "exit_price"
    /\ \E cp \in X.prices :
        LET l == [loops[th] EXCEPT !.price = cp]
        IN  IF cp = Raises
            THEN LET l1 == [l EXCEPT !.pc = ExitNext(l.exitq)]
                 IN  Last(th, Bot, l1, {}, LoopEvent("exit", "price_error", l1))
            ELSE IF cp = 0
            THEN LET l1 == [l EXCEPT !.pc = ExitNext(l.exitq)]
                 IN  Last(th, Bot, l1, {}, LoopEvent("exit", "no_price", l1))
            ELSE Step(th, Bot, [l EXCEPT !.pc = "exit_candles"], {},
                      LoopEvent("exit_priced", "", l))

\* get_ohlcv has returned.  When it raised, the except clause of
\* _check_exit_conditions ends the evaluation before any rule is tested.
\* When it answered: the exit rules on the position as it was read and, when
\* one matches, _execute_sell as far as its call of get_holdings.  Its read
\* of self.positions[ticker] raises KeyError when the position has gone
\* meanwhile.
ExitEvaluate(th, X) ==
    /\ loops[th].pc = "exit_candles"
    /\ \E feat \in X.feats :
        LET reason == exit_reason(loops[th].pos.entry_price,
                                  loops[th].price, feat)
            l == [loops[th] EXCEPT !.pc = ExitNext(loops[th].exitq),
                                   !.band = feat.bb > 95]
        IN  IF feat = CandlesRaise
            THEN Last(th, Bot, l, {}, LoopEvent("exit", "candles_error", l))
            ELSE IF reason = None
            THEN Last(th, Bot, l, {}, LoopEvent("exit", "hold", l))
            ELSE IF l.t \notin DOMAIN positions
            THEN Last(th, Bot, l, {}, LoopEvent("exit", "error", l))
            ELSE LET l1 == [l EXCEPT !.pc = "sell_holdings",
                                     !.reason = reason, !.ref = TRUE,
                                     !.pos = positions[l.t]]
                 IN  Step(th, Bot, l1, {}, LoopEvent("exit_sell", "", l1))

\* ------------------------------------------------------------ _execute_sell
\* get_holdings has answered (actual 0: the instrument is not listed).  A
\* failed call ends the sell; a vanished holding deletes the position; else
\* the amount is written into the dict the thread holds.
SellHoldings(th, X) ==
    /\ loops[th].pc = "sell_holdings"
    /\ \E ok \in X.oks, actual \in X.amounts \cup {0} :
        LET l == [loops[th] EXCEPT !.pc = ExitNext(loops[th].exitq), !.actual = actual]
            t == l.t
            amount == synced_amount(PosOf(l).amount, actual)
            l1 == [l EXCEPT !.pc = "sell_bid",
                            !.pos = [PosOf(l) EXCEPT !.amount = amount]]
        IN  /\ ~ok => actual = 0
            /\ IF ~ok
               THEN Last(th, Bot, l, {}, LoopEvent("exit", "error", l))
               ELSE IF actual = 0
               THEN IF t \notin DOMAIN positions
                    THEN Last(th, Bot, l, {}, LoopEvent("exit", "error", l))
                    ELSE Last(th, sell_vanished(Bot, t),
                              [l EXCEPT !.closed = @ \cup {t}], {t},
                              LoopEvent("exit", "vanished", l))
               ELSE Step(th,
                         IF l.ref
                         THEN [Bot EXCEPT !.positions[t].amount = amount]
                         ELSE Bot,
                         l1, {}, LoopEvent("sell_holdings", "", l1))

\* get_orderbook_bid_price has returned.  When it raised, the except clause
\* of _execute_sell ends the sell with the position in place.  When it
\* answered (bid 0 for None): the sell ends when the estimated proceeds are
\* below the minimum, else the order is placed for the amount of the
\* position.
SellBid(th, X) ==
    /\ loops[th].pc = "sell_bid"
    /\ \E bid \in X.bids :
        LET l == [loops[th] EXCEPT !.bid = bid]
            amount == PosOf(l).amount
        IN  IF bid = Raises
            THEN LET l1 == [l EXCEPT !.pc = ExitNext(l.exitq)]
                 IN  Last(th, Bot, l1, {}, LoopEvent("exit", "bid_error", l1))
            ELSE IF estimated_amount(amount, bid, l.price) < min_order_amount
            THEN LET l1 == [l EXCEPT !.pc = ExitNext(l.exitq)]
                 IN  Last(th, Bot, l1, {}, LoopEvent("exit", "too_small", l1))
            ELSE LET l1 == [l EXCEPT !.pc = "sell_order", !.qty = amount]
                 IN  Step(th, Bot, l1, {}, LoopEvent("sell_bid", "", l1))

\* sell_market_order has answered: a rejected order ends the sell; after a
\* confirmed one the entry price and the trade id are read from the position
\* the thread holds, and update_trade_exit is called.
SellOrder(th, X) ==
    /\ loops[th].pc = "sell_order"
    /\ \E order \in X.orders :
        LET l == loops[th]
        IN  IF ~order
            THEN LET l1 == [l EXCEPT !.pc = ExitNext(l.exitq)]
                 IN  Last(th, Bot, l1, {}, LoopEvent("exit", "rejected", l1))
            ELSE LET l1 == [l EXCEPT !.pc = "sell_ledger",
                                     !.pos = PosOf(l),
                                     !.pre_w = InList(tickers, l.t)]
                 IN  /\ session_trades < MaxTrades
                     /\ Step(th, Bot, l1, {},
                             LoopEvent("sell_order", "ordered", l1))

\* update_trade_exit has returned: the row is closed, or it was skipped for
\* an id that is in no row, or a statement raised and the method caught it.
\* The session counters are next.
SellLedger(th, X) ==
    /\ loops[th].pc = "sell_ledger"
    /\ \E ok \in X.exits :
        LET l == [loops[th] EXCEPT !.pc = "sell_cooldown"]
            b == update_trade_exit(Bot, l.pos.trade_id, ok)
        IN  Step(th, b, l, {},
                 LoopEvent("sell_ledger",
                           IF b # Bot THEN "closed"
                           ELSE IF ok THEN "skipped" ELSE "error",
                           l))

\* The session counters, and self.sold_coins_cooldown[ticker] = {...}
SellCooldown(th) ==
    /\ loops[th].pc = "sell_cooldown"
    /\ LET l == [loops[th] EXCEPT !.pc = "sell_remove"]
       IN  Step(th,
                sell_cooldown(count_session(Bot, l.price > l.pos.entry_price),
                              l.t, l.price, l.reason),
                l, {}, LoopEvent("sell_cooldown", "", l))

\* self.tickers.remove(ticker)
SellRemove(th) ==
    /\ loops[th].pc = "sell_remove"
    /\ LET l == [loops[th] EXCEPT !.pc = "sell_delete"]
       IN  Step(th, sell_remove_ticker(Bot, l.t), l, {},
                LoopEvent("sell_remove", "", l))

\* del self.positions[ticker], which raises KeyError when the key has gone:
\* the except clause of _execute_sell ends the sell.
SellDelete(th) ==
    /\ loops[th].pc = "sell_delete"
    /\ LET l == loops[th]
       IN  IF l.t \notin DOMAIN positions
           THEN LET l1 == [l EXCEPT !.pc = ExitNext(l.exitq)]
                IN  Last(th, Bot, l1, {}, LoopEvent("exit", "error", l1))
           ELSE LET l1 == [l EXCEPT !.pc = "sell_stats",
                                    !.closed = @ \cup {l.t}]
                IN  Step(th, sell_delete_position(Bot, l.t), l1, {l.t},
                         LoopEvent("sell_delete", "", l1))

\* get_statistics has returned.  When it raised, the except clause of
\* _execute_sell ends the sell, which has done everything but the trigger.
\* When it answered, the retraining trigger on the count it read, and
\* _retrain_model up to its call of get_learning_data.
SellStats(th, X) ==
    /\ loops[th].pc = "sell_stats"
    /\ \E stats \in X.stats :
        LET due == stats /\ retrain_due(total_trades)
            l == [loops[th] EXCEPT
                     !.pc = IF due THEN "retrain"
                            ELSE ExitNext(loops[th].exitq),
                     !.ret = IF due THEN "exit" ELSE "none"]
        IN  Last(th, Bot, l, {},
                 [LoopEvent("exit", IF stats THEN "sold" ELSE "stats_error",
                            l) EXCEPT
                     !.retrain = due,
                     !.count = IF stats THEN total_trades ELSE NoCount])

\* -------------------------------------------------- _check_entry_conditions
\* Step 2 of a tick, one element of self.tickers: the sleep at the end of the
\* list; nothing for a positioned instrument; else _check_entry_conditions up
\* to its call of get_ohlcv.
LoopEntry(th) ==
    /\ loops[th].pc = "entry"
    /\ IF loops[th].idx > Len(tickers)
       THEN Last(th, Bot, [NoLoop EXCEPT !.pc = "top"], {}, Ev("sleep"))
       ELSE LET t == tickers[loops[th].idx]
                l == [loops[th] EXCEPT
                         !.idx = @ + 1,
                         !.pre = IF loops[th].idx = 1 THEN tickers ELSE @,
                         !.visited = Append(@, t),
                         !.t = t]
            IN  IF t \in DOMAIN positions
                THEN Last(th, Bot, l, {}, LoopEvent("entry", "skipped", l))
                ELSE Step(th, Bot, [l EXCEPT !.pc = "entry_data"], {},
                          LoopEvent("entry_read", "", l))

\* get_ohlcv has returned (when it raised, the except clause of
\* _check_entry_conditions ends the evaluation): the prediction (an unfitted
\* classifier raises),
\* the test for a position, and the read of the cooldown entry, up to the
\* call of get_current_price; without a cooldown entry, the test of the two
\* signals, up to the first call of _execute_buy.
EntryEvaluate(th, X) ==
    /\ loops[th].pc = "entry_data"
    /\ \E feat \in X.feats, answer \in X.preds :
        LET l == [loops[th] EXCEPT !.pc = "entry"]
            p == predict(model, answer)
            l1 == [l EXCEPT !.pred = p, !.feat = feat,
                            !.sig = both_signals(p, feat)]
        IN  IF feat = CandlesRaise
            THEN Last(th, Bot, l, {}, LoopEvent("entry", "candles_error", l))
            ELSE IF feat = NoFeatures
            THEN Last(th, Bot, l, {}, LoopEvent("entry", "no_data", l))
            ELSE IF model = Unfitted
            THEN Last(th, Bot, l, {}, LoopEvent("entry", "error", l))
            ELSE IF l.t \in DOMAIN positions
            THEN Last(th, Bot, l, {}, LoopEvent("entry", "positioned", l))
            ELSE IF l.t \in DOMAIN sold_coins_cooldown
            THEN LET l2 == [l1 EXCEPT !.pc = "entry_gate",
                                      !.info = sold_coins_cooldown[l.t]]
                 IN  Step(th, Bot, l2, {}, LoopEvent("entry_eval", "", l2))
            ELSE IF ~l1.sig
            THEN Last(th, Bot, l1, {}, LoopEvent("entry", "no_signal", l1))
            ELSE IF trade_amount < min_buy_amount
            THEN Last(th, Bot, l1, {}, LoopEvent("entry", "below_minimum", l1))
            ELSE Step(th, Bot, [l1 EXCEPT !.pc = "buy"], {},
                      LoopEvent("entry_eval", "buying", l1))

\* The price call of the gate has returned: when it raised, the except
\* clause of _check_entry_conditions ends the evaluation; when it answered
\* (0 for None), the gate on the cooldown entry as it was read; the release,
\* whose del raises KeyError when the entry has gone meanwhile; and the test
\* of the two signals.
EntryGate(th, X) ==
    /\ loops[th].pc = "entry_gate"
    /\ \E cp \in X.prices :
        LET l == [loops[th] EXCEPT !.pc = "entry", !.price = cp]
            l1 == [l EXCEPT !.released = TRUE]
            e(out) == [LoopEvent("entry", out, l1) EXCEPT !.released = TRUE]
        IN  IF cp = Raises
            THEN Last(th, Bot, l, {}, LoopEvent("entry", "gate_error", l))
            ELSE IF cp = 0
            THEN Last(th, Bot, l, {}, LoopEvent("entry", "gate_no_price", l))
            ELSE IF cooldown_closed(l.info, cp)
            THEN Last(th, Bot, l, {}, LoopEvent("entry", "gate_closed", l))
            ELSE IF l.t \notin DOMAIN sold_coins_cooldown
            THEN Last(th, Bot, l, {}, LoopEvent("entry", "error", l))
            ELSE IF ~l.sig
            THEN Last(th, release_cooldown(Bot, l.t), l1, {}, e("no_signal"))
            ELSE IF trade_amount < min_buy_amount
            THEN Last(th, release_cooldown(Bot, l.t), l1, {},
                      e("below_minimum"))
            ELSE Step(th, release_cooldown(Bot, l.t),
                      [l1 EXCEPT !.pc = "buy"], {},
                      [e("buying") EXCEPT !.kind = "entry_eval"])

\* _execute_buy: get_current_price has returned.  When it raised, the except
\* clause of _execute_buy ends the buy; when it answered (0 for None), the
\* buy ends without a price, else buy_market_order is called.
BuyPrice(th, X) ==
    /\ loops[th].pc = "buy"
    /\ \E p \in X.buys :
        LET l == [loops[th] EXCEPT !.pc = "entry", !.buy = p]
        IN  IF p = Raises
            THEN Last(th, Bot, l, {}, LoopEvent("entry", "buy_error", l))
            ELSE IF p = 0
            THEN Last(th, Bot, l, {}, LoopEvent("entry", "buy_no_price", l))
            ELSE Step(th, Bot, [l EXCEPT !.pc = "buy_order"], {},
                      LoopEvent("buy_price", "", l))

\* buy_market_order has answered: a rejected order ends the buy; after a
\* confirmed one save_trade_entry is called.
BuyOrder(th, X) ==
    /\ loops[th].pc = "buy_order"
    /\ \E order \in X.orders :
        LET l == [loops[th] EXCEPT !.pc = "entry"]
        IN  IF ~order
            THEN Last(th, execute_buy(Bot, order, FALSE), l, {},
                      LoopEvent("entry", "buy_rejected", l))
            ELSE Step(th, Bot, [l EXCEPT !.pc = "buy_ledger"], {},
                      LoopEvent("buy_order", "ordered", l))

\* save_trade_entry has returned: when it raised, the except clause of
\* _execute_buy ends the buy; else the row of the trade is in the ledger and
\* its id is what the position will carry.
BuyLedger(th, X) ==
    /\ loops[th].pc = "buy_ledger"
    /\ \E db \in X.dbs :
        LET l == [loops[th] EXCEPT !.pc = "entry"]
            b == execute_buy(Bot, TRUE, db)
        IN  IF ~db
            THEN Last(th, b, l, {}, LoopEvent("entry", "buy_db_error", l))
            ELSE LET l1 == [l EXCEPT !.pc = "buy_position",
                                     !.tid = next_trade_id(Bot)]
                 IN  /\ Cardinality(open_trades) < MaxOpen
                     /\ Step(th, b, l1, {},
                             LoopEvent("buy_ledger", "saved", l1))

\* self.positions[ticker] = {...}, over whatever the table has for the
\* instrument by now.
BuyPosition(th) ==
    /\ loops[th].pc = "buy_position"
    /\ LET l == [loops[th] EXCEPT !.pc = "entry"]
       IN  Last(th, buy_position(Bot, l.t, l.tid, l.buy), l,
                IF l.t \in DOMAIN positions THEN {l.t} ELSE {},
                LoopEvent("entry", "bought", l))

\* ------------------------------------------------ _auto_recommendation_timer
\* What the steps of a timer thread leave alone.
TimerFrame ==
    UNCHANGED <<is_running, positions, sold_coins_cooldown, session_trades,
                session_wins, ledger_vars, model, refresh_vars,
                ticker_absence_count, ticker_origin_range,
                trade_amount, loops, api_pc>>

\* The timer after its sleep: the end when the flag is false, else the call
\* of the recommender.
TimerWake(th) ==
    /\ timers[th] = "sleep"
    /\ IF ~while_running(is_running)
       THEN /\ timers' = [timers EXCEPT ![th] = "stopped"]
            /\ ev' = [Ev("timer_stopped") EXCEPT !.th = th]
       ELSE /\ timers' = [timers EXCEPT ![th] = "recs"]
            /\ ev' = [Ev("timer_wake") EXCEPT !.th = th]
    /\ UNCHANGED <<tickers, recommended_coins>>
    /\ TimerFrame

\* What the recommender answers: a list, or an exception (ok FALSE).
RecAnswers(X) ==
    {[ok |-> TRUE, recs |-> recs] : recs \in X.recs}
        \cup {[ok |-> FALSE, recs |-> <<>>] : ok \in X.oks \ {TRUE}}

\* The event of a round of the timer.
TimerEvent(th, r) ==
    [Ev("timer") EXCEPT !.th = th, !.ok = r.ok,
        !.t = IF r.recs = <<>> THEN None ELSE r.recs[1]]

\* The recommender has answered or raised: the list is kept in
\* self.recommended_coins and its top added to the watchlist; an exception is
\* logged and nothing is written.  Then the next sleep.
TimerRound(th, X) ==
    /\ timers[th] = "recs"
    /\ \E r \in RecAnswers(X) :
        /\ recommended_coins' = IF r.ok THEN r.recs ELSE recommended_coins
        /\ tickers' = IF r.ok THEN auto_add(Bot, r.recs).tickers ELSE tickers
        /\ ev' = TimerEvent(th, r)
    /\ timers' = [timers EXCEPT ![th] = "sleep"]
    /\ TimerFrame

\* toggle_ticker(t), from the control surface; the event keeps which of the
\* three log lines was written.
Toggle ==
    /\ api_pc # "new"
    /\ \E t \in Tickers :
        Frame(toggle_ticker(Bot, t),
              [Ev("toggle") EXCEPT !.t = t,
                  !.out = IF ~InList(tickers, t) THEN "added"
                          ELSE IF Len(tickers) > 1 THEN "removed"
                          ELSE "kept"])
    /\ UNCHANGED <<is_running, recommended_coins, refresh_vars,
                   ticker_absence_count, ticker_origin_range,
                   trade_amount, loops, timers,
                   api_pc>>

\* The bot before __init__ calls _recover_positions.
Init ==
    /\ InitFields
    /\ api_pc = "new"

\* Where a thread is between a confirmed sell order and the end of the close:
\* in update_trade_exit, then before each of the three writes.
SellPcs == {"sell_ledger", "sell_cooldown", "sell_remove", "sell_delete"}

\* Where a thread is inside a tick; a training belongs to the tick when it is
\* the retraining of a sell.
TickPcs ==
    {"sync", "exit", "exit_price", "exit_candles", "sell_holdings",
     "sell_bid", "sell_order", "sell_stats", "entry", "entry_data",
     "entry_gate", "buy", "buy_order", "buy_ledger", "buy_position"}
        \cup SellPcs

TrainPcs == {"retrain", "train", "train_fit"}

InTick(th) ==
    \/ loops[th].pc \in TickPcs
    \/ loops[th].pc \in TrainPcs /\ loops[th].ret = "exit"

\* The closes in progress: the instrument, and whether it was in the watchlist
\* when the order succeeded.
Closing ==
    {[t |-> loops[th].t, w |-> loops[th].pre_w] :
        th \in {x \in Threads : loops[x].pc \in SellPcs}}

\* get_status(): the tables as they are at the call.
GetStatus ==
    /\ api_pc # "new"
    /\ ev' = [Ev("status") EXCEPT
                 !.seen = [tickers |-> tickers, positions |-> DOMAIN positions,
                           closing |-> Closing]]
    /\ UNCHANGED <<is_running, tickers, positions, sold_coins_cooldown,
                   session_trades, session_wins, recommended_coins,
                   refresh_vars, ticker_absence_count, ticker_origin_range,
                   trade_amount, ledger_vars,
                   model, loops, timers, api_pc>>

\* ------------------------------------------------ update_coin_recommendations
\* update_coin_recommendations(), up to the call of the recommender.
UpdateCoinRecommendations(c) ==
    /\ api_pc # "new"
    /\ callers[c] = "idle"
    /\ callers' = [callers EXCEPT ![c] = "direct"]
    /\ ev' = [Ev("update") EXCEPT !.th = c, !.out = "called"]
    /\ UNCHANGED <<is_running, tickers, positions, sold_coins_cooldown,
                   session_trades, session_wins, recommended_coins,
                   ticker_absence_count, ticker_origin_range, trade_amount,
                   is_updating_recommendations, workers, ledger_vars, model,
                   loops, timers, api_pc>>

\* The recommender has answered or raised: its list is assigned to
\* self.recommended_coins and returned; an exception goes to the caller and
\* nothing is written.
UpdateReturn(c, X) ==
    /\ callers[c] = "direct"
    /\ \E r \in RecAnswers(X) :
        /\ recommended_coins' = IF r.ok THEN r.recs ELSE recommended_coins
        /\ ev' = [Ev("update") EXCEPT
                     !.th = c, !.ok = r.ok,
                     !.out = IF r.ok THEN "returned" ELSE "raised"]
    /\ callers' = [callers EXCEPT ![c] = "idle"]
    /\ UNCHANGED <<is_running, tickers, positions, sold_coins_cooldown,
                   session_trades, session_wins,
                   ticker_absence_count, ticker_origin_range, trade_amount,
                   is_updating_recommendations, workers, ledger_vars, model,
                   loops, timers, api_pc>>

\* --------------------------------------------- update_recommendations_async
\* The test of self.is_updating_recommendations: the call returns when a
\* refresh is in progress.
RefreshCheck(c) ==
    /\ api_pc # "new"
    /\ callers[c] = "idle"
    /\ IF is_updating_recommendations
       THEN /\ ev' = [Ev("refresh") EXCEPT !.th = c, !.out = "in_progress"]
            /\ UNCHANGED callers
       ELSE /\ ev' = [Ev("refresh") EXCEPT !.th = c, !.out = "checked"]
            /\ callers' = [callers EXCEPT ![c] = "checked"]
    /\ UNCHANGED <<is_running, tickers, positions, sold_coins_cooldown,
                   session_trades, session_wins, recommended_coins,
                   ticker_absence_count, ticker_origin_range, trade_amount,
                   is_updating_recommendations, workers, ledger_vars, model,
                   loops, timers, api_pc>>

\* The flag is set and the worker thread started.
RefreshSpawn(c) ==
    /\ callers[c] = "checked"
    /\ workers < MaxWorkers
    /\ is_updating_recommendations' = TRUE
    /\ workers' = workers + 1
    /\ callers' = [callers EXCEPT ![c] = "idle"]
    /\ ev' = [Ev("refresh") EXCEPT !.th = c, !.out = "started"]
    /\ UNCHANGED <<is_running, tickers, positions, sold_coins_cooldown,
                   session_trades, session_wins, recommended_coins,
                   ticker_absence_count, ticker_origin_range,
                   trade_amount, ledger_vars,
                   model, loops, timers, api_pc>>

\* A worker whose flag is cleared on the success path only.
WorkerClearsOnSuccess(X) ==
    /\ workers > 0
    /\ \E ok \in X.oks, recs \in X.recs :
        /\ recommended_coins' = IF ok THEN recs ELSE recommended_coins
        /\ is_updating_recommendations' =
               IF ok THEN FALSE ELSE is_updating_recommendations
        /\ ev' = [Ev("worker") EXCEPT !.ok = ok]
    /\ workers' = workers - 1
    /\ UNCHANGED <<is_running, tickers, positions, sold_coins_cooldown,
                   session_trades, session_wins, callers,
                   ticker_absence_count, ticker_origin_range,
                   trade_amount, ledger_vars,
                   model, loops, timers, api_pc>>

\* _recommendation_worker: the list of the recommender is kept unless the call
\* raised, and the flag is cleared either way.
RecommendationWorker(X) ==
    /\ workers > 0
    /\ \E ok \in X.oks, recs \in X.recs :
        /\ recommended_coins' = IF ok THEN recs ELSE recommended_coins
        /\ ev' = [Ev("worker") EXCEPT !.ok = ok]
    /\ is_updating_recommendations' = FALSE
    /\ workers' = workers - 1
    /\ UNCHANGED <<is_running, tickers, positions, sold_coins_cooldown,
                   session_trades, session_wins, callers,
                   ticker_absence_count, ticker_origin_range,
                   trade_amount, ledger_vars,
                   model, loops, timers, api_pc>>

\* A bot that is started once and runs.
Next ==
    \/ ConstructRecover(Exchange)
    \/ Start
    \/ \E th \in Threads : LoopStart(th)
    \/ \E th \in Threads : TrainAssign(th, Exchange)
    \/ \E th \in Threads : TrainEnd(th, Exchange)
    \/ \E th \in Threads : RecoverHoldings(th, Exchange)
    \/ \E th \in Threads : RecoverNext(th)
    \/ \E th \in Threads : RecoverPrice(th, Exchange)
    \/ \E th \in Threads : RecoverEnd(th)
    \/ \E th \in Threads : LoopTop(th)
    \/ \E th \in Threads : SyncPositions(th, Exchange)
    \/ \E th \in Threads : LoopExit(th)
    \/ \E th \in Threads : ExitPrice(th, Exchange)
    \/ \E th \in Threads : ExitEvaluate(th, Exchange)
    \/ \E th \in Threads : SellHoldings(th, Exchange)
    \/ \E th \in Threads : SellBid(th, Exchange)
    \/ \E th \in Threads : SellOrder(th, Exchange)
    \/ \E th \in Threads : SellLedger(th, Exchange)
    \/ \E th \in Threads : SellCooldown(th)
    \/ \E th \in Threads : SellRemove(th)
    \/ \E th \in Threads : SellDelete(th)
    \/ \E th \in Threads : SellStats(th, Exchange)
    \/ \E th \in Threads : LoopEntry(th)
    \/ \E th \in Threads : EntryEvaluate(th, Exchange)
    \/ \E th \in Threads : EntryGate(th, Exchange)
    \/ \E th \in Threads : BuyPrice(th, Exchange)
    \/ \E th \in Threads : BuyOrder(th, Exchange)
    \/ \E th \in Threads : BuyLedger(th, Exchange)
    \/ \E th \in Threads : BuyPosition(th)
    \/ \E th \in Threads : TimerWake(th)
    \/ \E th \in Threads : TimerRound(th, Exchange)
    \/ Toggle

Spec == Init /\ [][Next]_vars

\* ------------------------------------------------------------------ claims
\* C5: in every reachable state every instrument that has a position is in the
\* watchlist (the position table is a dict, so an instrument has at most one
\* position).  toggle_ticker removes a positioned instrument from a watchlist
\* of two or more.
C5_PositionedInWatchlist ==
    \A t \in DOMAIN positions : InList(tickers, t)

\* C9: in a tick no entry evaluation runs while a position of the tick's
\* snapshot awaits its exit evaluation, and an instrument whose position the
\* tick has closed (by a sell, or dropped as no longer held) is not bought
\* again in the same tick.  A position that _execute_sell drops as no longer
\* held stays in the watchlist without a cooldown entry, and the entry loop of
\* the same tick buys it.
C9_TickOrder ==
    [][ev'.kind = "entry" =>
          /\ loops[ev'.th].pc \in {"entry", "entry_data", "entry_gate", "buy",
                                    "buy_order", "buy_ledger",
                                    "buy_position"}
          /\ loops[ev'.th].exitq = {}
          /\ ev'.out = "bought" => ev'.t \notin loops[ev'.th].closed]_vars


\* ---------------------------------------------------- recovery, run again
\* An exchange that holds 4 or 10 coins of an instrument, with an average
\* cost or without one, and whose calls can fail: get_holdings raises, and
\* get_current_price answers None or raises.
RecoveryExchange ==
    [oks |-> BOOLEAN, prices |-> {Raises, 0, 1000, 1250}, amounts |-> {4, 10},
     avgs |-> {0, 1000}, bids |-> {0}, buys |-> {1000}, orders |-> {TRUE},
     dbs |-> {TRUE}, exits |-> {TRUE}, stats |-> {TRUE}, datas |-> {TRUE},
     feats |-> {Oversold}, preds |-> {Up}, fits |-> {"ok"},
     recs |-> {<<>>}, held |-> Tickers]

\* A constructed bot whose _recover_positions is called again, step by step,
\* by one thread, with the toggles of the control surface and positions that
\* go in between.
NextRecovery ==
    \/ ConstructRecover(RecoveryExchange)
    \/ Recover(1, RecoveryExchange)
    \/ \E th \in Threads : RecoverNext(th)
    \/ \E th \in Threads : RecoverPrice(th, RecoveryExchange)
    \/ \E th \in Threads : RecoverEnd(th)
    \/ DropPosition
    \/ Toggle

SpecRecovery == Init /\ [][NextRecovery]_vars

\* C6 as stated: a recovery that follows a recovery with the same holdings
\* leaves the position table and the watchlist as they were.
C6_SameHoldings ==
    (ev.kind = "recover" /\ ev.rerun) => ev.wrote = {}

\* The number of times t is in the list s.
Count(s, t) == Cardinality({i \in 1..Len(s) : s[i] = t})

\* C6: a recovery that follows a recovery with the same holdings overwrites no
\* position and adds no watchlist entry twice, and it leaves the position
\* table and the watchlist as they were if every instrument held had a
\* position when it began.
C6_IdempotentRecovery ==
    [][/\ (ev'.kind \in RecoverKinds /\ loops'[ev'.th].rerun
              /\ loops'[ev'.th].solo) =>
          /\ \A t \in DOMAIN positions :
                t \in DOMAIN positions' /\ positions'[t] = positions[t]
          /\ \A t \in Tickers :
                Count(tickers', t) <= 1 \/ Count(tickers', t) = Count(tickers, t)
       /\ (ev'.kind = "recover" /\ ev'.rerun /\ ev'.full) =>
             ev'.wrote = {}]_vars

\* The second run over two held instruments, one of them without an average
\* cost, that both had a position when it began: it has written nothing.
C6_Witness ==
    /\ ev.kind = "recover"
    /\ ev.rerun
    /\ ev.full
    /\ ev.wrote = {}
    /\ Len(ev.hs) = 2
    /\ HeldTickers(ev.hs) \subseteq DOMAIN positions
    /\ \E i \in 1..2 : ev.hs[i].avg_buy_price = 0

\* ---------------------------------------------------------------- recovery
\* The held instruments a recovery with holdings hs and current prices pa
\* turns into positions: those not tracked whose average cost is positive or,
\* failing that, whose current price is.
Recoverable(hs, pa) ==
    {t \in HeldTickers(hs) \ DOMAIN positions :
        \E i \in 1..Len(hs) :
            /\ hs[i].ticker = t
            /\ (hs[i].avg_buy_price > 0 \/ pa[t] > 0)}

\* C31: a recovery whose holdings call answers creates a position for exactly
\* the held instruments that are not tracked and have a positive average cost
\* or, failing that, a positive current price; the position's entry price is
\* that cost or that price; the instrument is on the watchlist afterwards and
\* no other instrument joins it; every position has entry_price > 0.  The
\* first conjunct is the recovery of __init__ as a whole, the second each item
\* of a later recovery.  A price call that raises ends the recovery in the
\* except clause around the loop (line 234), and the held instruments after
\* it in the list get no position, whatever their average cost.
C31_RecoveryCreates ==
    [][/\ (ev'.kind = "recover" /\ ev'.th = 0 /\ ev'.ok) =>
          LET hs == ev'.hs
              new == Recoverable(hs, ev'.pa)
          IN  /\ DOMAIN positions' = DOMAIN positions \cup new
              /\ \A t \in DOMAIN positions : positions'[t] = positions[t]
              /\ \A i \in 1..Len(hs) :
                    hs[i].ticker \in new =>
                       /\ positions'[hs[i].ticker].entry_price =
                             (IF hs[i].avg_buy_price > 0
                              THEN hs[i].avg_buy_price
                              ELSE ev'.pa[hs[i].ticker])
                       /\ positions'[hs[i].ticker].amount = hs[i].amount
              /\ \A t \in Tickers :
                    InList(tickers', t) <=> (InList(tickers, t) \/ t \in new)
       /\ ev'.kind = "recover_item" =>
          LET l == loops[ev'.th]
              item == l.hs[l.i]
              t == item.ticker
              cost == item.avg_buy_price
              creates == /\ t \notin DOMAIN positions
                         /\ cost > 0 \/ (ev'.out # "asking" /\ ev'.price > 0)
          IN  /\ ev'.t = t
              /\ ev'.out \in {"tracked", "asking", "skipped", "recovered",
                               "raised"}
              /\ ev'.out = "recovered" <=> creates
              /\ IF creates
                 THEN /\ positions' = DictSet(positions, t, positions'[t])
                      /\ positions'[t].entry_price =
                            (IF cost > 0 THEN cost ELSE ev'.price)
                      /\ positions'[t].amount = item.amount
                      /\ tickers' = AppendIfAbsent(tickers, t)
                 ELSE positions' = positions /\ tickers' = tickers
       /\ \A t \in DOMAIN positions' : positions'[t].entry_price > 0]_vars

\* --------------------------------------------------------- the cooldown gate
\* A run in which the prices move around the thresholds of the gate: positions
\* recovered at 980 and at 1021 are closed at 1000 with a profit or a loss,
\* the instrument is put back on the watchlist, and the entry loop meets the
\* gate at prices on both sides of 985 and of 1015 and at the two thresholds.
GateExchange ==
    [oks |-> {TRUE}, prices |-> {0, 984, 985, 990, 1000, 1015, 1020},
     amounts |-> {10}, avgs |-> {980, 1021}, bids |-> {0}, buys |-> {0, 1000},
     orders |-> {TRUE}, dbs |-> {TRUE}, exits |-> {TRUE},
     stats |-> {TRUE}, datas |-> {TRUE}, feats |-> {Oversold},
     preds |-> {Down, Up}, fits |-> {"none", "ok"}, recs |-> {<<>>},
     held |-> {"BTC"}]

\* A bot that is started once, and the toggles of the control surface.
NextGate ==
    \/ ConstructRecover(GateExchange)
    \/ Start
    \/ \E th \in Threads : LoopStart(th)
    \/ \E th \in Threads : TrainAssign(th, GateExchange)
    \/ \E th \in Threads : TrainEnd(th, GateExchange)
    \/ \E th \in Threads : RecoverHoldings(th, GateExchange)
    \/ \E th \in Threads : RecoverNext(th)
    \/ \E th \in Threads : RecoverEnd(th)
    \/ \E th \in Threads : LoopTop(th)
    \/ \E th \in Threads : SyncPositions(th, GateExchange)
    \/ \E th \in Threads : LoopExit(th)
    \/ \E th \in Threads : ExitPrice(th, GateExchange)
    \/ \E th \in Threads : ExitEvaluate(th, GateExchange)
    \/ \E th \in Threads : LoopEntry(th)
    \/ \E th \in Threads : EntryEvaluate(th, GateExchange)
    \/ \E th \in Threads : SellHoldings(th, GateExchange)
    \/ \E th \in Threads : SellBid(th, GateExchange)
    \/ \E th \in Threads : SellOrder(th, GateExchange)
    \/ \E th \in Threads : SellLedger(th, GateExchange)
    \/ \E th \in Threads : SellCooldown(th)
    \/ \E th \in Threads : SellRemove(th)
    \/ \E th \in Threads : SellDelete(th)
    \/ \E th \in Threads : SellStats(th, GateExchange)
    \/ \E th \in Threads : EntryGate(th, GateExchange)
    \/ \E th \in Threads : BuyPrice(th, GateExchange)
    \/ \E th \in Threads : BuyOrder(th, GateExchange)
    \/ \E th \in Threads : BuyLedger(th, GateExchange)
    \/ \E th \in Threads : BuyPosition(th)
    \/ Toggle

SpecGate == Init /\ [][NextGate]_vars

\* The events of the steps of an entry evaluation.
EntryKinds == {"entry", "entry_eval"}

\* The events of the steps of _execute_buy before its end: the order has been
\* placed, it has been confirmed, and its row has been saved.
BuyKinds == {"buy_price", "buy_order", "buy_ledger"}

\* This step is the gate of an entry evaluation of t: the price has arrived.
GateStep(t) ==
    /\ ev'.kind \in EntryKinds
    /\ ev'.t = t
    /\ loops[ev'.th].pc = "entry_gate"

\* C7: an entry evaluation of an instrument in cooldown after a profit exit,
\* at a price >= exit_price * (1 - rebuy_threshold), places no buy order and
\* leaves the cooldown entry as it is; the entry goes only at a price strictly
\* below that threshold.
C7_ProfitGate ==
    [][\A t \in DOMAIN sold_coins_cooldown :
          (GateStep(t) /\ sold_coins_cooldown[t].reason = ReasonProfit)
          => LET info == sold_coins_cooldown[t]
                 at_or_above == ev'.price * 1000 >=
                                info.exit_price * (1000 - rebuy_threshold)
             IN  /\ at_or_above =>
                       /\ t \in DOMAIN sold_coins_cooldown'
                       /\ sold_coins_cooldown'[t] = info
                       /\ positions' = positions
                       /\ loops'[ev'.th].pc # "buy"
                 /\ t \notin DOMAIN sold_coins_cooldown' =>
                       ev'.price > 0 /\ ~at_or_above]_vars

\* The example of the specification, times ten: exit 1000, closed at 990.
C7_Witness ==
    /\ ev.kind = "entry"
    /\ ev.out = "gate_closed"
    /\ ev.price = 990
    /\ ev.t \in DOMAIN sold_coins_cooldown
    /\ sold_coins_cooldown[ev.t] =
          [exit_price |-> 1000, reason |-> ReasonProfit]

\* C8: an entry evaluation of an instrument in cooldown after a stop-loss
\* exit, at a price <= exit_price * (1 + rebuy_threshold), places no buy order
\* and leaves the cooldown entry as it is; the entry goes only at a price
\* strictly above that threshold.  The code compares with the double
\* exit_price * (1 + self.rebuy_threshold), which for an exit price of 1000
\* is 1014.9999999999999: at 1015, the threshold, the gate is open.
C8_LossGate ==
    [][\A t \in DOMAIN sold_coins_cooldown :
          (/\ GateStep(t)
           /\ ev'.price > 0
           /\ sold_coins_cooldown[t].reason = ReasonLoss)
          => LET info == sold_coins_cooldown[t]
                 at_or_below == ev'.price * 1000 <=
                                info.exit_price * (1000 + rebuy_threshold)
             IN  /\ at_or_below =>
                       /\ t \in DOMAIN sold_coins_cooldown'
                       /\ sold_coins_cooldown'[t] = info
                       /\ positions' = positions
                       /\ loops'[ev'.th].pc # "buy"
                 /\ t \notin DOMAIN sold_coins_cooldown' => ~at_or_below]_vars

\* ------------------------------------------------------- the untrained model
\* C18: while no model is trained (self.model is None) predict answers down
\* with confidence 0, the AI signal is false and the entry evaluation places
\* no buy order, whatever the classifier would have answered and however
\* oversold the instrument is.
C18_NoBuyUntrained ==
    [][(ev'.kind \in EntryKinds \cup BuyKinds /\ model = 0) =>
          /\ ev'.kind \notin BuyKinds
          /\ ev'.out \notin {"buying", "bought", "buy_no_price",
                             "buy_rejected", "buy_db_error", "below_minimum"}
          /\ loops'[ev'.th].pc # "buy"
          /\ loops[ev'.th].pc = "entry_data" => ev'.pred = <<0, 0>>
          /\ positions' = positions]_vars

\* An evaluation without a model that got past the candles, the position test
\* and the cooldown gate, and found no signal.
C18_Witness ==
    /\ model = 0
    /\ ev.kind = "entry" /\ ev.out = "no_signal" /\ ev.released
    /\ ev.pred = <<0, 0>> /\ oversold(ev.feat)

\* ------------------------------------------------------- release and closure
\* C22: an entry evaluation that releases a cooldown deletes the entry and
\* leaves the instrument in the watchlist once (appended when it was absent,
\* the watchlist as it was when it was present); one that finds the gate
\* closed leaves the cooldown table, the watchlist and the position table as
\* they were.
C22_ReleaseAndClosure ==
    [][ev'.kind \in EntryKinds =>
          /\ ev'.released =>
                /\ ev'.t \in DOMAIN sold_coins_cooldown
                /\ ev'.t \notin DOMAIN sold_coins_cooldown'
                /\ Count(tickers', ev'.t) = 1
                /\ tickers' = IF InList(tickers, ev'.t) THEN tickers
                              ELSE Append(tickers, ev'.t)
          /\ ev'.out = "gate_closed" =>
                /\ ev'.wrote = {}
                /\ sold_coins_cooldown' = sold_coins_cooldown
                /\ tickers' = tickers
                /\ positions' = positions]_vars

\* A release at a price above the threshold of a stop-loss entry.
C22_Witness ==
    /\ ev.kind = "entry" /\ ev.released /\ ev.price = 1020
    /\ ev.t \notin DOMAIN sold_coins_cooldown
    /\ InList(tickers, ev.t)
    /\ session_trades > 0

\* C23: an instrument released from cooldown is not bought in the evaluation
\* that released it: that evaluation places no buy order and creates no
\* position.  The code falls from the release (lines 399-403) into the test of
\* the two signals (line 405) and buys in the same call.
C23_NoBuyOnRelease ==
    [][(/\ ev'.kind \in EntryKinds \cup BuyKinds
        /\ (ev'.released \/ ev'.after_release)) =>
          /\ ev'.kind \notin BuyKinds
          /\ ev'.out \notin {"buying", "bought", "buy_rejected",
                             "buy_db_error"}
          /\ positions' = positions]_vars

\* The outcomes of an entry evaluation that tested the two signals.
SignalOuts ==
    {"no_signal", "below_minimum", "buy_no_price", "buy_rejected",
     "buy_db_error", "bought"}

\* C24: an entry evaluation places a buy order only when the predictor
\* answered up with a confidence strictly above the threshold and the
\* features are oversold; when either signal fails, it places no order and
\* changes no state.  An evaluation that releases the instrument from cooldown
\* and then finds a signal failing has already deleted the cooldown entry.
C24_BothGates ==
    [][LET both == /\ ev'.pred[1] = 1
                   /\ ev'.pred[2] > confidence_threshold
                   /\ (ev'.feat.rsi < 30 \/ ev'.feat.bb < 20)
       IN  /\ ev'.kind \in BuyKinds => both
           /\ (ev'.kind = "entry" /\ ev'.out \in SignalOuts) =>
                 /\ ev'.out \in {"bought", "buy_rejected", "buy_db_error"}
                        => both
                 /\ ~both => ev'.out = "no_signal" /\ ev'.wrote = {}]_vars

\* --------------------------------------------------------- close and restart
\* An exchange that answers every call, at prices that move.
CalmExchange ==
    [oks |-> {TRUE}, prices |-> {1000, 1250}, amounts |-> {10},
     avgs |-> {1000}, bids |-> {0}, buys |-> {1000}, orders |-> {TRUE},
     dbs |-> {TRUE}, exits |-> {TRUE}, stats |-> {TRUE}, datas |-> {TRUE},
     feats |-> {Oversold}, preds |-> {Up}, fits |-> {"ok"},
     recs |-> {<<"ETH">>}, held |-> Tickers]

\* A bot that is started once, the timer and the status query between the
\* steps of its loop.
NextClose ==
    \/ ConstructRecover(CalmExchange)
    \/ Start
    \/ \E th \in Threads : LoopStart(th)
    \/ \E th \in Threads : TrainAssign(th, CalmExchange)
    \/ \E th \in Threads : TrainEnd(th, CalmExchange)
    \/ \E th \in Threads : RecoverHoldings(th, CalmExchange)
    \/ \E th \in Threads : RecoverNext(th)
    \/ \E th \in Threads : RecoverEnd(th)
    \/ \E th \in Threads : LoopTop(th)
    \/ \E th \in Threads : SyncPositions(th, CalmExchange)
    \/ \E th \in Threads : LoopExit(th)
    \/ \E th \in Threads : ExitPrice(th, CalmExchange)
    \/ \E th \in Threads : ExitEvaluate(th, CalmExchange)
    \/ \E th \in Threads : LoopEntry(th)
    \/ \E th \in Threads : EntryEvaluate(th, CalmExchange)
    \/ \E th \in Threads : SellHoldings(th, CalmExchange)
    \/ \E th \in Threads : SellBid(th, CalmExchange)
    \/ \E th \in Threads : SellOrder(th, CalmExchange)
    \/ \E th \in Threads : SellLedger(th, CalmExchange)
    \/ \E th \in Threads : SellCooldown(th)
    \/ \E th \in Threads : SellRemove(th)
    \/ \E th \in Threads : SellDelete(th)
    \/ \E th \in Threads : SellStats(th, CalmExchange)
    \/ \E th \in Threads : EntryGate(th, CalmExchange)
    \/ \E th \in Threads : BuyPrice(th, CalmExchange)
    \/ \E th \in Threads : BuyOrder(th, CalmExchange)
    \/ \E th \in Threads : BuyLedger(th, CalmExchange)
    \/ \E th \in Threads : BuyPosition(th)
    \/ \E th \in Threads : TimerWake(th)
    \/ \E th \in Threads : TimerRound(th, CalmExchange)
    \/ GetStatus

SpecClose == Init /\ [][NextClose]_vars

\* An account that holds BTC, bought at 1000, whatever the bot sells; the
\* model predicts no rise.
RestartExchange ==
    [CalmExchange EXCEPT !.held = {"BTC"}, !.preds = {Down}]

\* A bot that is started and stopped at will, its trading threads
\* interleaved, its timer threads asleep.
NextRestart ==
    \/ ConstructRecover(RestartExchange)
    \/ Start
    \/ \E th \in Threads : LoopStart(th)
    \/ \E th \in Threads : TrainAssign(th, RestartExchange)
    \/ \E th \in Threads : TrainEnd(th, RestartExchange)
    \/ \E th \in Threads : RecoverHoldings(th, RestartExchange)
    \/ \E th \in Threads : RecoverNext(th)
    \/ \E th \in Threads : RecoverEnd(th)
    \/ \E th \in Threads : LoopTop(th)
    \/ \E th \in Threads : SyncPositions(th, RestartExchange)
    \/ \E th \in Threads : LoopExit(th)
    \/ \E th \in Threads : ExitPrice(th, RestartExchange)
    \/ \E th \in Threads : ExitEvaluate(th, RestartExchange)
    \/ \E th \in Threads : LoopEntry(th)
    \/ \E th \in Threads : EntryEvaluate(th, RestartExchange)
    \/ \E th \in Threads : SellHoldings(th, RestartExchange)
    \/ \E th \in Threads : SellBid(th, RestartExchange)
    \/ \E th \in Threads : SellOrder(th, RestartExchange)
    \/ \E th \in Threads : SellLedger(th, RestartExchange)
    \/ \E th \in Threads : SellCooldown(th)
    \/ \E th \in Threads : SellRemove(th)
    \/ \E th \in Threads : SellDelete(th)
    \/ \E th \in Threads : SellStats(th, RestartExchange)
    \/ \E th \in Threads : EntryGate(th, RestartExchange)
    \/ Stop
    \/ StopReturn

SpecRestart == Init /\ [][NextRestart]_vars

\* C4: no get_status() sees a close half done: for a sell order that has
\* succeeded, a position that is still in the table is still in the watchlist.
\* _execute_sell removes the instrument from self.tickers before it deletes
\* the position, with no lock, and get_status() reads between the two.
C4_AtomicClose ==
    ev.kind = "status" =>
        \A c \in ev.seen.closing :
            c.w /\ c.t \in ev.seen.positions => InList(ev.seen.tickers, c.t)

\* C10: at most one _trading_loop thread is inside a tick.  stop() returns
\* after five seconds while the loop sleeps ten, start() then starts a second
\* loop, and the first goes on when it wakes.
C10_SingleFlight ==
    Cardinality({th \in Threads : InTick(th)}) <= 1

\* C35: no instrument has a position and a cooldown entry in the same state.
\* _recover_positions looks at self.positions only (line 207): an instrument
\* sold by the bot and still, or again, held at the exchange is given a
\* position while its cooldown entry stands.
C35_OpenOrCooldown ==
    DOMAIN positions \cap DOMAIN sold_coins_cooldown = {}

\* ------------------------------------------------ the entry loop's iteration
\* A bot that is started once, with the timer and the toggles of the control
\* surface while it ticks.
NextWatch ==
    \/ ConstructRecover(CalmExchange)
    \/ Start
    \/ \E th \in Threads : LoopStart(th)
    \/ \E th \in Threads : TrainAssign(th, CalmExchange)
    \/ \E th \in Threads : TrainEnd(th, CalmExchange)
    \/ \E th \in Threads : RecoverHoldings(th, CalmExchange)
    \/ \E th \in Threads : RecoverNext(th)
    \/ \E th \in Threads : RecoverEnd(th)
    \/ \E th \in Threads : LoopTop(th)
    \/ \E th \in Threads : SyncPositions(th, CalmExchange)
    \/ \E th \in Threads : LoopExit(th)
    \/ \E th \in Threads : ExitPrice(th, CalmExchange)
    \/ \E th \in Threads : ExitEvaluate(th, CalmExchange)
    \/ \E th \in Threads : LoopEntry(th)
    \/ \E th \in Threads : EntryEvaluate(th, CalmExchange)
    \/ \E th \in Threads : SellHoldings(th, CalmExchange)
    \/ \E th \in Threads : SellBid(th, CalmExchange)
    \/ \E th \in Threads : SellOrder(th, CalmExchange)
    \/ \E th \in Threads : SellLedger(th, CalmExchange)
    \/ \E th \in Threads : SellCooldown(th)
    \/ \E th \in Threads : SellRemove(th)
    \/ \E th \in Threads : SellDelete(th)
    \/ \E th \in Threads : SellStats(th, CalmExchange)
    \/ \E th \in Threads : EntryGate(th, CalmExchange)
    \/ \E th \in Threads : BuyPrice(th, CalmExchange)
    \/ \E th \in Threads : BuyOrder(th, CalmExchange)
    \/ \E th \in Threads : BuyLedger(th, CalmExchange)
    \/ \E th \in Threads : BuyPosition(th)
    \/ \E th \in Threads : TimerWake(th)
    \/ \E th \in Threads : TimerRound(th, CalmExchange)
    \/ Toggle

SpecWatch == Init /\ [][NextWatch]_vars

\* C12: the instruments a tick's entry loop has visited when it ends are the
\* whole watchlist as it was when the loop began or the whole watchlist as it
\* is when the loop ends, each instrument once.
C12_WholeWatchlist ==
    [][\A th \in Threads :
        (loops[th].pc = "entry" /\ loops'[th].pc = "top") =>
            \/ loops[th].visited = loops[th].pre
            \/ loops[th].visited = tickers]_vars

\* ------------------------------------------------------------------ stopping
\* An exchange on which nothing moves: the price stays at the average cost and
\* the model predicts no rise.
QuietExchange ==
    [CalmExchange EXCEPT !.prices = {1000}, !.preds = {Down}]

\* The same, for an account that holds nothing.
StopExchange ==
    [QuietExchange EXCEPT !.held = {}, !.recs = {<<>>}]

\* A bot that is started and stopped, with its loop and timer threads.
NextStop ==
    \/ ConstructRecover(StopExchange)
    \/ Start
    \/ \E th \in Threads : LoopStart(th)
    \/ \E th \in Threads : TrainAssign(th, StopExchange)
    \/ \E th \in Threads : TrainEnd(th, StopExchange)
    \/ \E th \in Threads : RecoverHoldings(th, StopExchange)
    \/ \E th \in Threads : RecoverEnd(th)
    \/ \E th \in Threads : LoopTop(th)
    \/ \E th \in Threads : SyncPositions(th, StopExchange)
    \/ \E th \in Threads : LoopEntry(th)
    \/ \E th \in Threads : EntryEvaluate(th, StopExchange)
    \/ \E th \in Threads : TimerWake(th)
    \/ \E th \in Threads : TimerRound(th, StopExchange)
    \/ Stop
    \/ StopReturn

\* A started thread is scheduled, its calls return and its sleeps end: each
\* step of a thread that can be taken is taken in the end.  The calls of the
\* control surface are under no obligation.
ThreadsFair(X) ==
    \A th \in Threads :
        /\ WF_vars(LoopStart(th))
        /\ WF_vars(TrainAssign(th, X))
        /\ WF_vars(TrainEnd(th, X))
        /\ WF_vars(RecoverHoldings(th, X))
        /\ WF_vars(RecoverNext(th))
        /\ WF_vars(RecoverPrice(th, X))
        /\ WF_vars(RecoverEnd(th))
        /\ WF_vars(LoopTop(th))
        /\ WF_vars(SyncPositions(th, X))
        /\ WF_vars(LoopExit(th))
        /\ WF_vars(ExitPrice(th, X))
        /\ WF_vars(ExitEvaluate(th, X))
        /\ WF_vars(SellHoldings(th, X))
        /\ WF_vars(SellBid(th, X))
        /\ WF_vars(SellOrder(th, X))
        /\ WF_vars(SellLedger(th, X))
        /\ WF_vars(SellCooldown(th))
        /\ WF_vars(SellRemove(th))
        /\ WF_vars(SellDelete(th))
        /\ WF_vars(SellStats(th, X))
        /\ WF_vars(RetrainData(th, X))
        /\ WF_vars(LoopEntry(th))
        /\ WF_vars(EntryEvaluate(th, X))
        /\ WF_vars(EntryGate(th, X))
        /\ WF_vars(BuyPrice(th, X))
        /\ WF_vars(BuyOrder(th, X))
        /\ WF_vars(BuyLedger(th, X))
        /\ WF_vars(BuyPosition(th))
        /\ WF_vars(TimerWake(th))
        /\ WF_vars(TimerRound(th, X))

ThreadFairness == ThreadsFair(StopExchange)

SpecStop == Init /\ [][NextStop]_vars /\ ThreadFairness

\* C13: once stop() has set the flag to false, the tick loop and the timer
\* loop that run then read it at their next wake point, begin no further
\* round and end: the slot of each thread is free at some later point.
\* stop() waits 5 s at most and start() may then set the flag again before a
\* loop has read it (C10): that loop goes on beside the new threads.
C13_StopEndsLoops ==
    \A th \in Threads :
        (ev.kind = "stop" /\ ev.out = "stopping") ~> FreeSlot(th)

\* ------------------------------------------------------------------- faults
\* An exchange, a ledger and a trainer that can fail at every call: the
\* holdings call raises, a price is None or the call raises, the candle call
\* raises or its candles are too few, the bid call raises or has no bid, an
\* order is rejected, each of the four ledger calls (save_trade_entry,
\* update_trade_exit, get_statistics, get_learning_data) raises, and a
\* training fails at the split or at the fit.
FaultExchange ==
    [oks |-> BOOLEAN, prices |-> {Raises, 0, 1000, 1250}, amounts |-> {10},
     avgs |-> {1000}, bids |-> {Raises, 0}, buys |-> {Raises, 0, 1000},
     orders |-> BOOLEAN, dbs |-> BOOLEAN, exits |-> BOOLEAN,
     stats |-> BOOLEAN, datas |-> BOOLEAN,
     feats |-> {CandlesRaise, NoFeatures, Oversold}, preds |-> {Up},
     fits |-> {"ok", "split", "fit"}, recs |-> {<<"ETH">>},
     held |-> Tickers]

\* A ledger one closed trade short of the retraining threshold.
LedgerBefore == 29

InitFaults ==
    /\ \E m \in {0, 1} : InitWith(LedgerBefore, m)
    /\ api_pc = "new"

\* A bot that is started once and runs on the failing exchange.
NextFaults ==
    \/ ConstructRecover(FaultExchange)
    \/ Start
    \/ \E th \in Threads : LoopStart(th)
    \/ \E th \in Threads : TrainAssign(th, FaultExchange)
    \/ \E th \in Threads : TrainEnd(th, FaultExchange)
    \/ \E th \in Threads : RecoverHoldings(th, FaultExchange)
    \/ \E th \in Threads : RecoverNext(th)
    \/ \E th \in Threads : RecoverEnd(th)
    \/ \E th \in Threads : LoopTop(th)
    \/ \E th \in Threads : SyncPositions(th, FaultExchange)
    \/ \E th \in Threads : LoopExit(th)
    \/ \E th \in Threads : ExitPrice(th, FaultExchange)
    \/ \E th \in Threads : ExitEvaluate(th, FaultExchange)
    \/ \E th \in Threads : LoopEntry(th)
    \/ \E th \in Threads : EntryEvaluate(th, FaultExchange)
    \/ \E th \in Threads : SellHoldings(th, FaultExchange)
    \/ \E th \in Threads : SellBid(th, FaultExchange)
    \/ \E th \in Threads : SellOrder(th, FaultExchange)
    \/ \E th \in Threads : SellLedger(th, FaultExchange)
    \/ \E th \in Threads : SellCooldown(th)
    \/ \E th \in Threads : SellRemove(th)
    \/ \E th \in Threads : SellDelete(th)
    \/ \E th \in Threads : SellStats(th, FaultExchange)
    \/ \E th \in Threads : RetrainData(th, FaultExchange)
    \/ \E th \in Threads : EntryGate(th, FaultExchange)
    \/ \E th \in Threads : BuyPrice(th, FaultExchange)
    \/ \E th \in Threads : BuyOrder(th, FaultExchange)
    \/ \E th \in Threads : BuyLedger(th, FaultExchange)
    \/ \E th \in Threads : BuyPosition(th)
    \/ \E th \in Threads : TimerWake(th)
    \/ \E th \in Threads : TimerRound(th, FaultExchange)

SpecFaults == InitFaults /\ [][NextFaults]_vars /\ ThreadsFair(FaultExchange)

\* The outcomes of a handler whose price, candle, bid, holdings, order or
\* ledger call failed.
FailureOuts ==
    {"error", "no_price", "price_error", "candles_error", "no_data",
     "gate_no_price", "gate_error", "buy_no_price", "buy_error",
     "buy_rejected", "buy_db_error", "bid_error", "rejected", "stats_error"}

\* Thread th is in its while loop.
InLoop(th) == loops[th].pc = "top" \/ InTick(th)

\* The last step ended a handler of thread th in which a call failed, or
\* was the return of an update_trade_exit that failed, or a training has
\* left a model that cannot predict.
Failed(th) ==
    /\ InLoop(th)
    /\ \/ ev.th = th
          /\ ev.kind \in {"sync", "exit", "entry", "train", "retrain"}
          /\ (~ev.ok \/ ev.out \in FailureOuts \/ ev.fit \in {"split", "fit"})
       \/ ev.th = th /\ ev.kind = "sell_ledger" /\ ev.out = "error"
       \/ model = Unfitted

\* C14: no failure ends the control loop: a thread in its while loop leaves
\* it only when it reads the flag false, and after a failure it begins another
\* tick as long as the flag is true.
C14_LoopSurvivesFailures ==
    /\ [][\A th \in Threads :
            InLoop(th) => (InLoop(th)' \/ ~is_running)]_vars
    /\ \A th \in Threads :
        Failed(th) ~> (~is_running \/ (ev.kind = "sync" /\ ev.th = th))

\* The tick after a retraining whose fit raised, and its holdings call fails.
C14_Witness ==
    \E th \in Threads :
        /\ is_running
        /\ model = Unfitted
        /\ total_trades = LedgerBefore + 1
        /\ ev.kind = "sync" /\ ev.th = th /\ ~ev.ok

\* ---------------------------------------------------------------- retraining
\* C17: a retraining that fails leaves the model as it was.
\* train_initial_model puts the new, unfitted classifier in self.model before
\* it fits it: when the fit raises, _retrain_model logs the error and the
\* unfitted classifier stays, on which every later predict raises.
C17_FailedRetrainKeepsModel ==
    [][(\/ ev'.kind = "retrain" /\ ev'.out \in {"no_data", "error"}
        \/ ev'.kind = "train" /\ ev'.retrain /\ ev'.fit \in {"split", "fit"})
          => model' = ev'.m0]_vars

\* C25: every buy order the exchange confirms leaves a position of the
\* instrument that carries the id of its ledger entry, the price read and the
\* quantity trade_amount / price.  An order is confirmed in the evaluations
\* that end "bought" and in those where save_trade_entry raises after the
\* order (line 456), which _execute_buy's except clause ends without a
\* position.
C25_ConfirmedBuyTracked ==
    [][(ev'.kind = "entry" /\ ev'.out \in {"bought", "buy_db_error"}) =>
          /\ ev'.t \in DOMAIN positions'
          /\ positions'[ev'.t].trade_id = loops[ev'.th].tid
          /\ positions'[ev'.t].trade_id \in open_trades'
          /\ positions'[ev'.t].entry_price > 0
          /\ positions'[ev'.t].amount * positions'[ev'.t].entry_price
                = trade_amount]_vars

\* --------------------------------------------------------------- drift sync
\* s without the elements of S.
Without(s, S) == SelectSeq(s, LAMBDA u : u \notin S)

\* C32: a drift sync whose holdings call answers the set ev.batch removes
\* exactly the positions of instruments outside it, takes those instruments
\* off the watchlist, keeps every other position as it is, and writes no
\* cooldown entry, ledger update or session counter; a drift sync whose
\* holdings call fails changes nothing.
C32_DriftSync ==
    [][ev'.kind = "sync" =>
          LET gone == DOMAIN positions \ ev'.batch
          IN  /\ sold_coins_cooldown' = sold_coins_cooldown
              /\ total_trades' = total_trades
              /\ open_trades' = open_trades
              /\ session_trades' = session_trades
              /\ session_wins' = session_wins
              /\ model' = model
              /\ IF ev'.ok
                 THEN /\ DOMAIN positions' = DOMAIN positions \ gone
                      /\ \A t \in DOMAIN positions' :
                            positions'[t] = positions[t]
                      /\ tickers' = Without(tickers, gone)
                 ELSE positions' = positions /\ tickers' = tickers]_vars

\* A drift sync has removed a position and its watchlist entry while another
\* position, still held, stays.
C32_Witness ==
    /\ ev.kind = "sync" /\ ev.ok
    /\ ev.removed # {}
    /\ \A t \in ev.removed : t \notin DOMAIN positions /\ ~InList(tickers, t)
    /\ DOMAIN positions # {}
    /\ DOMAIN positions \subseteq ev.batch

\* ------------------------------------------------------- the position table
\* A bot that is started once, with every activity that runs beside the tick:
\* the timer, the toggles, the status queries and the on-demand refresh of
\* one caller, for an account that holds BTC or nothing.
FrameExchange == [CalmExchange EXCEPT !.held = {"BTC"}]

NextFrame ==
    \/ ConstructRecover(FrameExchange)
    \/ Start
    \/ \E th \in Threads : LoopStart(th)
    \/ \E th \in Threads : TrainAssign(th, FrameExchange)
    \/ \E th \in Threads : TrainEnd(th, FrameExchange)
    \/ \E th \in Threads : RecoverHoldings(th, FrameExchange)
    \/ \E th \in Threads : RecoverNext(th)
    \/ \E th \in Threads : RecoverEnd(th)
    \/ \E th \in Threads : LoopTop(th)
    \/ \E th \in Threads : SyncPositions(th, FrameExchange)
    \/ \E th \in Threads : LoopExit(th)
    \/ \E th \in Threads : ExitPrice(th, FrameExchange)
    \/ \E th \in Threads : ExitEvaluate(th, FrameExchange)
    \/ \E th \in Threads : LoopEntry(th)
    \/ \E th \in Threads : EntryEvaluate(th, FrameExchange)
    \/ \E th \in Threads : SellHoldings(th, FrameExchange)
    \/ \E th \in Threads : SellBid(th, FrameExchange)
    \/ \E th \in Threads : SellOrder(th, FrameExchange)
    \/ \E th \in Threads : SellLedger(th, FrameExchange)
    \/ \E th \in Threads : SellCooldown(th)
    \/ \E th \in Threads : SellRemove(th)
    \/ \E th \in Threads : SellDelete(th)
    \/ \E th \in Threads : SellStats(th, FrameExchange)
    \/ \E th \in Threads : EntryGate(th, FrameExchange)
    \/ \E th \in Threads : BuyPrice(th, FrameExchange)
    \/ \E th \in Threads : BuyOrder(th, FrameExchange)
    \/ \E th \in Threads : BuyLedger(th, FrameExchange)
    \/ \E th \in Threads : BuyPosition(th)
    \/ \E th \in Threads : TimerWake(th)
    \/ \E th \in Threads : TimerRound(th, FrameExchange)
    \/ Toggle
    \/ GetStatus
    \/ RefreshCheck(1)
    \/ RefreshSpawn(1)
    \/ RecommendationWorker(FrameExchange)

SpecFrame == Init /\ [][NextFrame]_vars

\* C15: a Position appears only in a recovery or in an entry evaluation whose
\* buy succeeded, and disappears only in an exit whose sell succeeded, in an
\* exit that found the holding gone, or in the tick's reconciliation with the
\* holdings; the timer's refresh and auto-add, the on-demand refresh, a
\* cooldown release without a buy, a toggle and a status query leave the
\* table as it is.
C15_PositionLifecycle ==
    [][/\ \A t \in Tickers :
            /\ (t \notin DOMAIN positions /\ t \in DOMAIN positions') =>
                  \/ ev'.kind = "recover"
                       /\ \E i \in 1..Len(ev'.hs) : ev'.hs[i].ticker = t
                  \/ ev'.kind = "recover_item" /\ ev'.t = t
                       /\ ev'.out = "recovered"
                  \/ ev'.kind = "entry" /\ ev'.t = t /\ ev'.out = "bought"
            /\ (t \in DOMAIN positions /\ t \notin DOMAIN positions') =>
                  \/ ev'.kind = "sell_delete" /\ ev'.t = t
                       /\ loops[ev'.th].pc = "sell_delete"
                  \/ ev'.kind = "exit" /\ ev'.t = t /\ ev'.out = "vanished"
                  \/ ev'.kind = "sync" /\ t \in ev'.removed
                       /\ t \notin ev'.batch
       /\ (\/ ev'.kind \in {"timer", "timer_wake", "timer_stopped", "toggle",
                            "status", "refresh", "worker", "update",
                            "force_retrain", "retrain"}
           \/ ev'.kind \in BuyKinds
           \/ ev'.kind \in EntryKinds /\ ev'.out # "bought")
              => positions' = positions]_vars

\* The worker of an on-demand refresh has stored a list, after a sale, beside
\* a position the bot has bought.
C15_Witness ==
    /\ ev.kind = "worker" /\ ev.ok
    /\ recommended_coins # <<>>
    /\ \E t \in DOMAIN positions : positions[t].trade_id \in open_trades
    /\ session_trades > 0

\* ------------------------------------------------------- cooldown release
\* A bot that is started once and keeps running on an exchange that answers
\* every call, every thread scheduled in the end.
NextCooldown ==
    \/ ConstructRecover(CalmExchange)
    \/ Start
    \/ \E th \in Threads : LoopStart(th)
    \/ \E th \in Threads : TrainAssign(th, CalmExchange)
    \/ \E th \in Threads : TrainEnd(th, CalmExchange)
    \/ \E th \in Threads : RecoverHoldings(th, CalmExchange)
    \/ \E th \in Threads : RecoverNext(th)
    \/ \E th \in Threads : RecoverEnd(th)
    \/ \E th \in Threads : LoopTop(th)
    \/ \E th \in Threads : SyncPositions(th, CalmExchange)
    \/ \E th \in Threads : LoopExit(th)
    \/ \E th \in Threads : ExitPrice(th, CalmExchange)
    \/ \E th \in Threads : ExitEvaluate(th, CalmExchange)
    \/ \E th \in Threads : LoopEntry(th)
    \/ \E th \in Threads : EntryEvaluate(th, CalmExchange)
    \/ \E th \in Threads : SellHoldings(th, CalmExchange)
    \/ \E th \in Threads : SellBid(th, CalmExchange)
    \/ \E th \in Threads : SellOrder(th, CalmExchange)
    \/ \E th \in Threads : SellLedger(th, CalmExchange)
    \/ \E th \in Threads : SellCooldown(th)
    \/ \E th \in Threads : SellRemove(th)
    \/ \E th \in Threads : SellDelete(th)
    \/ \E th \in Threads : SellStats(th, CalmExchange)
    \/ \E th \in Threads : EntryGate(th, CalmExchange)
    \/ \E th \in Threads : BuyPrice(th, CalmExchange)
    \/ \E th \in Threads : BuyOrder(th, CalmExchange)
    \/ \E th \in Threads : BuyLedger(th, CalmExchange)
    \/ \E th \in Threads : BuyPosition(th)
    \/ \E th \in Threads : TimerWake(th)
    \/ \E th \in Threads : TimerRound(th, CalmExchange)

SpecCooldown ==
    Init /\ [][NextCooldown]_vars /\ ThreadsFair(CalmExchange)

\* An evaluation of the gate of t that found no data or a price that is not
\* on the release side.
GateHeld(t) ==
    /\ ev.kind = "entry" /\ ev.t = t
    /\ ev.out \in {"no_data", "error", "gate_no_price", "gate_closed"}

\* C16: a CooldownEntry is deleted in the end, and its instrument re-admitted,
\* unless an evaluation of its gate finds the data missing or the price off
\* the release side.  _execute_sell takes the instrument out of self.tickers,
\* the entry loop visits self.tickers only, and so the gate of a sold
\* instrument is never evaluated unless something else re-adds it.
C16_CooldownReleased ==
    \A t \in Tickers :
        (is_running /\ t \in DOMAIN sold_coins_cooldown)
            ~> (t \notin DOMAIN sold_coins_cooldown \/ GateHeld(t))

\* ------------------------------------------------- reconciler, presence step
\* C19: after a batch of origin range R is reconciled, every instrument of the
\* batch is in the watchlist with absence count 0 and origin range R: the new
\* ones, those tracked under R with a count above 0, and those tracked under
\* another range.
C19_PresenceStep ==
    [][ev'.kind = "reconcile" =>
          \A t \in ev'.batch :
              /\ InList(tickers', t)
              /\ t \in DOMAIN ticker_absence_count'
              /\ ticker_absence_count'[t] = 0
              /\ t \in DOMAIN ticker_origin_range'
              /\ ticker_origin_range'[t] = ev'.rng]_vars

\* A batch has just been reconciled, and beside its instruments, at count 0
\* under its range, the watchlist has an instrument of the other range that
\* was absent from a batch of its own.
C19_Witness ==
    /\ ev.kind = "reconcile"
    /\ \E t \in ev.batch, u \in Tickers \ ev.batch :
          /\ InList(tickers, t) /\ InList(tickers, u)
          /\ ticker_absence_count[t] = 0
          /\ ticker_origin_range[t] = ev.rng
          /\ u \in DOMAIN ticker_origin_range
          /\ ticker_origin_range[u] # ev.rng
          /\ ticker_absence_count[u] = 1

\* ------------------------------------------------------------ the band exit
\* Positions recovered or bought at 1000 that the band rule closes at 984 or
\* at 1000, the profit rule at 1020 and the stop at 980, and prices on both
\* sides of the two thresholds of the gate afterwards; the candle call of an
\* evaluation can raise.
BandExchange ==
    [oks |-> {TRUE}, prices |-> {0, 980, 984, 1000, 1020}, amounts |-> {10},
     avgs |-> {1000}, bids |-> {0}, buys |-> {1000}, orders |-> {TRUE},
     dbs |-> {TRUE}, exits |-> {TRUE}, stats |-> {TRUE}, datas |-> {TRUE},
     feats |-> {CandlesRaise, Oversold, HighBand}, preds |-> {Down, Up},
     fits |-> {"ok"}, recs |-> {<<>>}, held |-> {"BTC"}]

NextBand ==
    \/ ConstructRecover(BandExchange)
    \/ Start
    \/ \E th \in Threads : LoopStart(th)
    \/ \E th \in Threads : TrainAssign(th, BandExchange)
    \/ \E th \in Threads : TrainEnd(th, BandExchange)
    \/ \E th \in Threads : RecoverHoldings(th, BandExchange)
    \/ \E th \in Threads : RecoverNext(th)
    \/ \E th \in Threads : RecoverEnd(th)
    \/ \E th \in Threads : LoopTop(th)
    \/ \E th \in Threads : SyncPositions(th, BandExchange)
    \/ \E th \in Threads : LoopExit(th)
    \/ \E th \in Threads : ExitPrice(th, BandExchange)
    \/ \E th \in Threads : ExitEvaluate(th, BandExchange)
    \/ \E th \in Threads : LoopEntry(th)
    \/ \E th \in Threads : EntryEvaluate(th, BandExchange)
    \/ \E th \in Threads : SellHoldings(th, BandExchange)
    \/ \E th \in Threads : SellBid(th, BandExchange)
    \/ \E th \in Threads : SellOrder(th, BandExchange)
    \/ \E th \in Threads : SellLedger(th, BandExchange)
    \/ \E th \in Threads : SellCooldown(th)
    \/ \E th \in Threads : SellRemove(th)
    \/ \E th \in Threads : SellDelete(th)
    \/ \E th \in Threads : SellStats(th, BandExchange)
    \/ \E th \in Threads : EntryGate(th, BandExchange)
    \/ \E th \in Threads : BuyPrice(th, BandExchange)
    \/ \E th \in Threads : BuyOrder(th, BandExchange)
    \/ \E th \in Threads : BuyLedger(th, BandExchange)
    \/ \E th \in Threads : BuyPosition(th)
    \/ Toggle

SpecBand == Init /\ [][NextBand]_vars

\* C20: the cooldown entry of a position that the band rule closed is of the
\* Profit class: an entry evaluation at a price >= exit_price * (1 -
\* rebuy_threshold) leaves the entry and places no buy order, and the entry
\* goes only at a price strictly below that threshold.  The code tells the
\* class by 'Profit' in the reason, "Bollinger Band Upper" has no 'Profit' in
\* it, and the gate of a band exit is the one of a loss.
C20_BandExitProfitGate ==
    [][\A t \in DOMAIN sold_coins_cooldown :
          (/\ GateStep(t)
           /\ ev'.price > 0
           /\ sold_coins_cooldown[t].reason = ReasonBand)
          => LET info == sold_coins_cooldown[t]
                 at_or_above == ev'.price * 1000 >=
                                info.exit_price * (1000 - rebuy_threshold)
             IN  /\ at_or_above =>
                       /\ t \in DOMAIN sold_coins_cooldown'
                       /\ sold_coins_cooldown'[t] = info
                       /\ positions' = positions
                       /\ loops'[ev'.th].pc # "buy"
                 /\ t \notin DOMAIN sold_coins_cooldown' => ~at_or_above]_vars

\* ---------------------------------------------------------- exit priority
\* C21 as stated: an exit evaluation that has a price attempts a sell for
\* the profit rule when the profit rate is at or above the target, else for
\* the stop when it is at or below minus the stop, else for the band rule
\* when the price is in the upper band, and attempts none otherwise; the
\* reason of a sell that went through is the one of the first rule that
\* matched.
C21_ExitPriority ==
    [][/\ \A th \in Threads :
            (/\ loops[th].pc = "exit_candles"
             /\ ev'.th = th
             /\ ev'.kind \in {"exit", "exit_sell"}
             /\ ev'.price > 0) =>
              LET entry == loops[th].pos.entry_price
                  profit == (ev'.price - entry) * 1000 >= target_profit * entry
                  loss == (ev'.price - entry) * 1000
                              <= (0 - stop_loss) * entry
                  reason == IF profit THEN ReasonProfit
                            ELSE IF loss THEN ReasonLoss
                            ELSE ReasonBand
              IN  /\ positions[ev'.t].entry_price = entry
                  /\ (ev'.kind = "exit" /\ ev'.out = "hold")
                        <=> ~(profit \/ loss \/ ev'.band)
                  /\ ev'.kind = "exit_sell" <=> (profit \/ loss \/ ev'.band)
                  /\ ev'.kind = "exit_sell" => loops'[th].reason = reason
       /\ ev'.kind = "sell_cooldown" =>
             /\ ev'.t \in DOMAIN sold_coins_cooldown'
             /\ sold_coins_cooldown'[ev'.t] =
                   [exit_price |-> loops[ev'.th].price,
                    reason |-> loops[ev'.th].reason]]_vars

\* C21, amended: an exit evaluation whose price call and candle call have
\* both answered attempts a sell for the profit rule when the profit rate is
\* at or above the target, else for the stop when it is at or below minus the
\* stop, else for the band rule when the price is in the upper band, and
\* attempts none otherwise; the reason of a sell that went through is the one
\* of the first rule that matched.  An evaluation whose candle call raised
\* attempts no sell and writes nothing, whatever the profit rate.
C21_ExitPriorityFetched ==
    [][/\ \A th \in Threads :
            (/\ loops[th].pc = "exit_candles"
             /\ ev'.th = th
             /\ ev'.kind \in {"exit", "exit_sell"}
             /\ ev'.price > 0) =>
              LET entry == loops[th].pos.entry_price
                  profit == (ev'.price - entry) * 1000 >= target_profit * entry
                  loss == (ev'.price - entry) * 1000
                              <= (0 - stop_loss) * entry
                  reason == IF profit THEN ReasonProfit
                            ELSE IF loss THEN ReasonLoss
                            ELSE ReasonBand
              IN  IF ev'.out = "candles_error"
                  THEN /\ ev'.kind = "exit"
                       /\ ev'.wrote = {}
                       /\ positions' = positions
                       /\ loops'[th].pc # "sell_holdings"
                  ELSE /\ positions[ev'.t].entry_price = entry
                       /\ (ev'.kind = "exit" /\ ev'.out = "hold")
                             <=> ~(profit \/ loss \/ ev'.band)
                       /\ ev'.kind = "exit_sell"
                             <=> (profit \/ loss \/ ev'.band)
                       /\ ev'.kind = "exit_sell" => loops'[th].reason = reason
       /\ ev'.kind = "sell_cooldown" =>
             /\ ev'.t \in DOMAIN sold_coins_cooldown'
             /\ sold_coins_cooldown'[ev'.t] =
                   [exit_price |-> loops[ev'.th].price,
                    reason |-> loops[ev'.th].reason]]_vars

\* A close at the target exactly, with the price in the upper band as well.
C21_Witness ==
    /\ ev.kind = "exit" /\ ev.out = "sold" /\ ev.band /\ ev.price = 1020
    /\ ev.t \in DOMAIN sold_coins_cooldown
    /\ sold_coins_cooldown[ev.t] =
          [exit_price |-> 1020, reason |-> ReasonProfit]

\* ------------------------------------------------------- orders and sells
\* A run around the sell: the exchange holds 4 or 10 coins of a position
\* opened or recovered at 1000 and closed at 980 or at 1020, or none; the
\* best bid is absent, 400 or 1250, so that 4 coins are worth less than
\* min_order_amount at the exit price and more at 1250, and 10 coins less at
\* 400 only; the bid call can raise, buy and sell orders can be rejected,
\* and update_trade_exit and get_statistics can raise.
SellExchange ==
    [oks |-> {TRUE}, prices |-> {0, 980, 1000, 1020}, amounts |-> {4, 10},
     avgs |-> {1000}, bids |-> {Raises, 0, 400, 1250}, buys |-> {1000},
     orders |-> BOOLEAN, dbs |-> {TRUE}, exits |-> BOOLEAN,
     stats |-> BOOLEAN, datas |-> {TRUE}, feats |-> {Oversold},
     preds |-> {Down, Up}, fits |-> {"ok"}, recs |-> {<<>>},
     held |-> {"BTC"}]

NextSell ==
    \/ ConstructRecover(SellExchange)
    \/ Start
    \/ \E th \in Threads : LoopStart(th)
    \/ \E th \in Threads : TrainAssign(th, SellExchange)
    \/ \E th \in Threads : TrainEnd(th, SellExchange)
    \/ \E th \in Threads : RecoverHoldings(th, SellExchange)
    \/ \E th \in Threads : RecoverNext(th)
    \/ \E th \in Threads : RecoverEnd(th)
    \/ \E th \in Threads : LoopTop(th)
    \/ \E th \in Threads : SyncPositions(th, SellExchange)
    \/ \E th \in Threads : LoopExit(th)
    \/ \E th \in Threads : ExitPrice(th, SellExchange)
    \/ \E th \in Threads : ExitEvaluate(th, SellExchange)
    \/ \E th \in Threads : LoopEntry(th)
    \/ \E th \in Threads : EntryEvaluate(th, SellExchange)
    \/ \E th \in Threads : SellHoldings(th, SellExchange)
    \/ \E th \in Threads : SellBid(th, SellExchange)
    \/ \E th \in Threads : SellOrder(th, SellExchange)
    \/ \E th \in Threads : SellLedger(th, SellExchange)
    \/ \E th \in Threads : SellCooldown(th)
    \/ \E th \in Threads : SellRemove(th)
    \/ \E th \in Threads : SellDelete(th)
    \/ \E th \in Threads : SellStats(th, SellExchange)
    \/ \E th \in Threads : EntryGate(th, SellExchange)
    \/ \E th \in Threads : BuyPrice(th, SellExchange)
    \/ \E th \in Threads : BuyOrder(th, SellExchange)
    \/ \E th \in Threads : BuyLedger(th, SellExchange)
    \/ \E th \in Threads : BuyPosition(th)
    \/ Toggle

SpecSell == Init /\ [][NextSell]_vars

\* C26 as stated: a rejected order leaves the tables unchanged.  A rejected
\* buy creates no position and no ledger entry; a sell whose order is
\* rejected has changed no table.
C26_RejectedOrderUnchanged ==
    [][/\ (ev'.kind = "entry" /\ ev'.out = "buy_rejected") =>
             /\ positions' = positions
             /\ total_trades' = total_trades
             /\ open_trades' = open_trades
       /\ (ev'.kind = "exit" /\ ev'.out = "rejected") =>
             ev'.wrote = {}]_vars

\* C26, amended: a rejected buy creates no position and no ledger entry; a
\* rejected sell leaves the position in the table, with the entry price and
\* the trade id it had and with the amount the holdings of that sell report,
\* writes no cooldown entry, keeps the watchlist and leaves the session
\* counters, the ledger and the model.
C26_RejectedOrder ==
    [][/\ (ev'.kind = "entry" /\ ev'.out = "buy_rejected") =>
             /\ positions' = positions
             /\ total_trades' = total_trades
             /\ open_trades' = open_trades
             /\ session_trades' = session_trades
       /\ (ev'.kind = "exit" /\ ev'.out = "rejected") =>
             /\ ev'.wrote \subseteq {"positions"}
             /\ positions' = positions
             /\ ev'.t \in DOMAIN positions'
             /\ positions'[ev'.t] =
                   [loops[ev'.th].pos EXCEPT !.amount = ev'.actual]]_vars

\* A sell order for 4 coins, of a position that remembered 10, is rejected.
C26_Witness ==
    /\ ev.kind = "exit" /\ ev.out = "rejected"
    /\ ev.t \in DOMAIN positions
    /\ ev.actual = 4 /\ ev.qty = 4
    /\ ev.wrote = {"positions"}
    /\ positions[ev.t].trade_id \in open_trades
    /\ session_trades > 0

\* C27: an exit whose holdings do not list the instrument removes the
\* position and nothing else: no sell order is placed, the ledger is not
\* updated, no cooldown entry is written, and the session counters keep their
\* values.
C27_VanishedPosition ==
    [][(ev'.kind = "exit" /\ ev'.out = "vanished") =>
          /\ ev'.actual = 0 /\ ev'.qty = 0
          /\ ev'.t \in DOMAIN positions
          /\ DOMAIN positions' = DOMAIN positions \ {ev'.t}
          /\ \A u \in DOMAIN positions' : positions'[u] = positions[u]
          /\ ev'.wrote = {"positions"}]_vars

\* A position the bot bought has gone from the holdings at its exit.
C27_Witness ==
    /\ ev.kind = "exit" /\ ev.out = "vanished" /\ ev.price = 1020
    /\ ev.t \notin DOMAIN positions
    /\ ev.t \notin DOMAIN sold_coins_cooldown
    /\ session_trades > 0

\* The outcomes of a sell that read the holdings, found the instrument and
\* got the answer of the order book.
HeldOuts == {"too_small", "rejected", "sold"}

\* The proceeds of the sell of an exit event: the amount the holdings report
\* at the best bid, or at the exit price when there is no bid.
Proceeds(e) == e.actual * (IF e.bid = 0 THEN e.price ELSE e.bid)

\* C28 as stated: a sell whose estimated proceeds are below the minimum places
\* no order and changes no state: positions, cooldown table, watchlist and
\* session counters are as before.
C28_TooSmallUnchanged ==
    [][(ev'.kind = "exit" /\ ev'.out \in HeldOuts
        /\ Proceeds(ev') < min_order_amount) =>
          /\ ev'.qty = 0
          /\ ev'.wrote = {}]_vars

\* C28, amended: a sell whose estimated proceeds (the quantity the holdings
\* report, at the best bid) are below the minimum places no order and changes
\* nothing but the amount of the position, which becomes the quantity the
\* holdings report.
C28_TooSmall ==
    [][(ev'.kind = "exit" /\ ev'.out \in HeldOuts
        /\ Proceeds(ev') < min_order_amount) =>
          /\ ev'.out = "too_small" /\ ev'.qty = 0
          /\ ev'.wrote \subseteq {"positions"}
          /\ positions' = positions
          /\ ev'.t \in DOMAIN positions'
          /\ positions'[ev'.t] =
                [loops[ev'.th].pos EXCEPT !.amount = ev'.actual]]_vars

\* 4 coins at a best bid of 400 are below the minimum; the position, bought
\* as 10 coins, stays with 4.
C28_Witness ==
    /\ ev.kind = "exit" /\ ev.out = "too_small"
    /\ ev.actual = 4 /\ ev.bid = 400
    /\ ev.wrote = {"positions"}
    /\ ev.t \in DOMAIN positions
    /\ positions[ev.t].trade_id \in open_trades
    /\ positions[ev.t].amount = 4

\* C29: the quantity a sell passes to sell_market_order is the quantity the
\* holdings read by that same sell report for the instrument, whatever the
\* position remembered.
C29_SellsHeldQuantity ==
    [][/\ ev'.kind = "sell_bid" =>
             ev'.actual > 0 /\ ev'.qty = ev'.actual
       /\ (ev'.kind = "exit" /\ ev'.out \in {"rejected", "sold"}) =>
             ev'.actual > 0 /\ ev'.qty = ev'.actual]_vars

\* A position the bot bought as 10 coins at 1000 is sold as the 4 coins the
\* exchange still holds; the order is rejected and the position remains.
C29_Witness ==
    /\ ev.kind = "exit" /\ ev.out = "rejected" /\ ev.bid = 1250
    /\ ev.t \in DOMAIN positions
    /\ positions[ev.t].trade_id \in open_trades
    /\ positions[ev.t].entry_price * 10 = trade_amount
    /\ ev.qty = 4

\* C30: a position created by recovery carries no trade id, and the sale of
\* a recovered position updates no trade of the ledger: the ledger's count of
\* closed trades moves only at the sale of a position the bot bought.
\* _recover_positions gives every position it creates the id
\* "recovered_<ticker>_<time>" (line 221).
C30_RecoveredNoLedgerId ==
    [][/\ ev'.kind \in {"recover", "recover_item"} =>
             \A t \in DOMAIN positions' \ DOMAIN positions :
                 positions'[t].trade_id = None
       /\ total_trades' # total_trades =>
             /\ ev'.kind = "sell_ledger"
             /\ loops[ev'.th].pos.trade_id # None
             /\ loops[ev'.th].pos.trade_id \in open_trades]_vars

\* C38: session_trades grows by exactly one at each sell order that succeeds
\* and changes at no other step; session_wins changes only in such a step, by
\* zero or one; and 0 <= session_wins <= session_trades in every state.
C38_SessionCounters ==
    [][/\ IF ev'.kind = "sell_cooldown"
          THEN /\ loops[ev'.th].pc = "sell_cooldown"
               /\ session_trades' = session_trades + 1
               /\ session_wins' \in {session_wins, session_wins + 1}
          ELSE /\ session_trades' = session_trades
               /\ session_wins' = session_wins
       /\ (ev'.kind = "sell_order" /\ ev'.out = "ordered") =>
             loops'[ev'.th].pc = "sell_ledger"
       /\ ev'.kind = "sell_ledger" => loops'[ev'.th].pc = "sell_cooldown"
       /\ ev'.kind = "exit" =>
             ("trades" \in ev'.wrote <=> ev'.out \in {"sold", "stats_error"})
       /\ 0 <= session_wins'
       /\ session_wins' <= session_trades']_vars

\* Two sales in a session, one of them at a profit; the drift sync that
\* follows counts nothing.
C38_Witness ==
    /\ session_trades = 2 /\ session_wins = 1
    /\ ev.kind = "sync" /\ ev.removed # {}

\* --------------------------------------------------------------- retraining
\* A run around the retraining trigger: positions bought and recovered at
\* 1000 are sold at 1020 or not at all, the sell order can be rejected and
\* the holdings can have lost the instrument; update_trade_exit, the read of
\* the count and the read of the learning data can raise; a training succeeds
\* or fails.
RetrainExchange ==
    [oks |-> {TRUE}, prices |-> {0, 1000, 1020}, amounts |-> {10},
     avgs |-> {1000}, bids |-> {0}, buys |-> {1000}, orders |-> BOOLEAN,
     dbs |-> {TRUE}, exits |-> BOOLEAN, stats |-> BOOLEAN, datas |-> BOOLEAN,
     feats |-> {Oversold}, preds |-> {Down, Up},
     fits |-> {"ok", "fit"}, recs |-> {<<>>}, held |-> {"BTC"}]

\* The closed trades the ledger holds when the bot is constructed: none, or
\* one less than a multiple of the threshold below and at the 30 samples a
\* training needs.
LedgersBefore == {0, 9, 29}

InitRetrain ==
    /\ \E n \in LedgersBefore : InitWith(n, 1)
    /\ api_pc = "new"

NextRetrain ==
    \/ ConstructRecover(RetrainExchange)
    \/ Start
    \/ \E th \in Threads : LoopStart(th)
    \/ \E th \in Trainers : TrainAssign(th, RetrainExchange)
    \/ \E th \in Trainers : TrainEnd(th, RetrainExchange)
    \/ \E th \in Threads : RecoverHoldings(th, RetrainExchange)
    \/ \E th \in Threads : RecoverNext(th)
    \/ \E th \in Threads : RecoverEnd(th)
    \/ \E th \in Threads : LoopTop(th)
    \/ \E th \in Threads : SyncPositions(th, RetrainExchange)
    \/ \E th \in Threads : LoopExit(th)
    \/ \E th \in Threads : ExitPrice(th, RetrainExchange)
    \/ \E th \in Threads : ExitEvaluate(th, RetrainExchange)
    \/ \E th \in Threads : LoopEntry(th)
    \/ \E th \in Threads : EntryEvaluate(th, RetrainExchange)
    \/ \E th \in Threads : SellHoldings(th, RetrainExchange)
    \/ \E th \in Threads : SellBid(th, RetrainExchange)
    \/ \E th \in Threads : SellOrder(th, RetrainExchange)
    \/ \E th \in Threads : SellLedger(th, RetrainExchange)
    \/ \E th \in Threads : SellCooldown(th)
    \/ \E th \in Threads : SellRemove(th)
    \/ \E th \in Threads : SellDelete(th)
    \/ \E th \in Threads : SellStats(th, RetrainExchange)
    \/ \E th \in Threads : BuyPrice(th, RetrainExchange)
    \/ \E th \in Threads : BuyOrder(th, RetrainExchange)
    \/ \E th \in Threads : BuyLedger(th, RetrainExchange)
    \/ \E th \in Threads : BuyPosition(th)
    \/ ForceRetrain
    \/ \E th \in Trainers : RetrainData(th, RetrainExchange)

SpecRetrain == InitRetrain /\ [][NextRetrain]_vars

\* The events of the steps of a training, and of _retrain_model before it.
TrainKinds == {"train", "train_assign"}
RetrainKinds == TrainKinds \cup {"retrain"}

\* C33: an exit invokes the retraining exactly when its sell order succeeded
\* and the count of closed trades it read from the ledger after the sale is
\* positive and a multiple of retrain_threshold; the count read is the
\* ledger's count at that moment, and an exit that read none (no sale, or a
\* get_statistics that raised) invokes none; a loop thread trains after no
\* other exit, and the model changes in a training only (beside the exits,
\* force_retrain of the control surface trains).
C33_RetrainOnThreshold ==
    [][/\ ev'.kind = "exit" =>
          /\ ev'.retrain <=> /\ ev'.out = "sold"
                             /\ ev'.count > 0
                             /\ ev'.count % retrain_threshold = 0
          /\ ev'.count = IF ev'.out = "sold" THEN total_trades' ELSE NoCount
          /\ loops'[ev'.th].pc \in TrainPcs => ev'.retrain
       /\ (ev'.kind \in RetrainKinds /\ ev'.th \in Threads) =>
             ev'.retrain /\ loops[ev'.th].ret = "exit"
       /\ model' # model => ev'.kind \in TrainKinds]_vars

\* The sale that closes the tenth trade of the ledger invokes the retraining.
C33_Witness ==
    /\ ev.kind = "exit" /\ ev.out = "sold" /\ ev.retrain
    /\ ev.count = 10 /\ total_trades = 10

\* ------------------------------------------------------- periodic auto-admit
\* A quiet market in which the recommender answers nothing, ETH or BTC, or
\* raises, and the holdings call can fail.
AdmitExchange ==
    [QuietExchange EXCEPT !.oks = BOOLEAN,
                          !.recs = {<<>>, <<"ETH">>, <<"BTC">>}]

\* A bot that is started once and stopped, its timer, and the manual toggle
\* while it runs.
NextAdmit ==
    \/ ConstructRecover(AdmitExchange)
    \/ Start
    \/ \E th \in Threads : LoopStart(th)
    \/ \E th \in Threads : TrainAssign(th, AdmitExchange)
    \/ \E th \in Threads : TrainEnd(th, AdmitExchange)
    \/ \E th \in Threads : RecoverHoldings(th, AdmitExchange)
    \/ \E th \in Threads : RecoverNext(th)
    \/ \E th \in Threads : RecoverEnd(th)
    \/ \E th \in Threads : LoopTop(th)
    \/ \E th \in Threads : SyncPositions(th, AdmitExchange)
    \/ \E th \in Threads : LoopExit(th)
    \/ \E th \in Threads : ExitPrice(th, AdmitExchange)
    \/ \E th \in Threads : ExitEvaluate(th, AdmitExchange)
    \/ \E th \in Threads : LoopEntry(th)
    \/ \E th \in Threads : EntryEvaluate(th, AdmitExchange)
    \/ \E th \in Threads : TimerWake(th)
    \/ \E th \in Threads : TimerRound(th, AdmitExchange)
    \/ Stop
    \/ Toggle

SpecAdmit == Init /\ [][NextAdmit]_vars

\* C34: a round of the timer appends the top instrument of the batch to the
\* watchlist when it is neither in the watchlist nor positioned and
\* trade_amount is at least the minimum; in every other round, with an empty
\* batch, and when the timer finds the bot stopped after its wait, the
\* watchlist is unchanged.
C34_AutoAdmit ==
    [][ev'.kind \in {"timer", "timer_wake", "timer_stopped"} =>
          IF /\ ev'.kind = "timer"
             /\ ev'.t # None
             /\ ~InList(tickers, ev'.t)
             /\ ev'.t \notin DOMAIN positions
             /\ trade_amount >= min_buy_amount
          THEN tickers' = Append(tickers, ev'.t)
          ELSE tickers' = tickers]_vars

\* The timer met a top instrument that is neither on the watchlist nor
\* positioned, with a trade_amount below the minimum, and left the watchlist
\* alone.
C34_Witness ==
    /\ ev.kind = "timer"
    /\ ev.t # None
    /\ ev.t \notin DOMAIN positions
    /\ ~InList(tickers, ev.t)
    /\ trade_amount < min_buy_amount

\* -------------------------------------------------------- the manual toggle
\* C40: toggle_ticker(t) appends t when the watchlist does not hold it, takes
\* one entry of t out when the watchlist holds it and has more than one
\* entry, so that a watchlist that held t once holds it no more and the other
\* entries stay in their order, and leaves the watchlist as it is when t is
\* its only entry; no toggle empties a watchlist that was not empty.
C40_Toggle ==
    [][ev'.kind = "toggle" =>
          /\ IF ~InList(tickers, ev'.t)
             THEN tickers' = Append(tickers, ev'.t)
             ELSE IF Len(tickers) > 1
             THEN /\ Count(tickers', ev'.t) = Count(tickers, ev'.t) - 1
                  /\ Without(tickers', {ev'.t}) = Without(tickers, {ev'.t})
             ELSE tickers' = tickers
          /\ tickers # <<>> => tickers' # <<>>]_vars

\* A toggle of the only entry of the watchlist has left it in place.
C40_Witness ==
    /\ ev.kind = "toggle" /\ ev.out = "kept"
    /\ tickers = <<ev.t>>

\* ------------------------------------------------------ two buys of one
\* A market in which every instrument on the watchlist is bought and nothing
\* is sold, for an account that holds BTC, with an average cost or without
\* one, or nothing.
BuyExchange ==
    [CalmExchange EXCEPT !.prices = {1000}, !.recs = {<<>>},
                         !.avgs = {0, 1000}, !.held = {"BTC"}]

\* A bot that is started and stopped at will, its trading threads
\* interleaved.
NextBuy ==
    \/ ConstructRecover(BuyExchange)
    \/ Start
    \/ \E th \in Threads : LoopStart(th)
    \/ \E th \in Threads : TrainAssign(th, BuyExchange)
    \/ \E th \in Threads : TrainEnd(th, BuyExchange)
    \/ \E th \in Threads : RecoverHoldings(th, BuyExchange)
    \/ \E th \in Threads : RecoverNext(th)
    \/ \E th \in Threads : RecoverEnd(th)
    \/ \E th \in Threads : LoopTop(th)
    \/ \E th \in Threads : SyncPositions(th, BuyExchange)
    \/ \E th \in Threads : LoopExit(th)
    \/ \E th \in Threads : ExitPrice(th, BuyExchange)
    \/ \E th \in Threads : ExitEvaluate(th, BuyExchange)
    \/ \E th \in Threads : LoopEntry(th)
    \/ \E th \in Threads : EntryEvaluate(th, BuyExchange)
    \/ \E th \in Threads : RecoverPrice(th, BuyExchange)
    \/ \E th \in Threads : BuyPrice(th, BuyExchange)
    \/ \E th \in Threads : BuyOrder(th, BuyExchange)
    \/ \E th \in Threads : BuyLedger(th, BuyExchange)
    \/ \E th \in Threads : BuyPosition(th)
    \/ Stop
    \/ StopReturn

SpecBuy == Init /\ [][NextBuy]_vars

\* C36: no buy order is placed for an instrument that has a position, and no
\* buy overwrites a position.  The test for a position (lines 179, 344) and
\* the order with its write (442, 464) are apart, and a second _trading_loop
\* started after stop() (C10) buys or recovers the instrument in between.
C36_NoSecondBuy ==
    [][(ev'.kind = "entry" /\ ev'.out = "bought") =>
          ev'.t \notin DOMAIN positions]_vars

\* ------------------------------------------- the auto-add, step by step
\* The recommender has answered, as in TimerRound, with the auto-add in two
\* steps: the tests of lines 761-776, and then, as TimerAppend, the append of
\* line 779.  Between the two the timer thread holds the ticker it has
\* tested: timers[th] is that ticker.
TimerDecide(th, X) ==
    /\ timers[th] = "recs"
    /\ \E r \in RecAnswers(X) :
        /\ recommended_coins' = IF r.ok THEN r.recs ELSE recommended_coins
        /\ ev' = TimerEvent(th, r)
        /\ timers' = [timers EXCEPT ![th] =
                          IF r.ok /\ auto_add(Bot, r.recs) # Bot
                          THEN r.recs[1] ELSE "sleep"]
    /\ UNCHANGED tickers
    /\ TimerFrame

\* self.tickers.append(ticker), and the next sleep.
TimerAppend(th) ==
    /\ timers[th] \in Tickers
    /\ tickers' = Append(tickers, timers[th])
    /\ timers' = [timers EXCEPT ![th] = "sleep"]
    /\ ev' = [Ev("timer_append") EXCEPT !.th = th, !.t = timers[th]]
    /\ UNCHANGED recommended_coins
    /\ TimerFrame

\* The same market, with every call answered.
AppendExchange == [AdmitExchange EXCEPT !.oks = {TRUE}]

\* A bot that is started once: its loop in a quiet market, its timer with the
\* auto-add step by step, and the manual toggle.
NextAppend ==
    \/ ConstructRecover(AppendExchange)
    \/ Start
    \/ \E th \in Threads : LoopStart(th)
    \/ \E th \in Threads : TrainAssign(th, AppendExchange)
    \/ \E th \in Threads : TrainEnd(th, AppendExchange)
    \/ \E th \in Threads : RecoverHoldings(th, AppendExchange)
    \/ \E th \in Threads : RecoverNext(th)
    \/ \E th \in Threads : RecoverEnd(th)
    \/ \E th \in Threads : LoopTop(th)
    \/ \E th \in Threads : SyncPositions(th, AppendExchange)
    \/ \E th \in Threads : LoopExit(th)
    \/ \E th \in Threads : ExitPrice(th, AppendExchange)
    \/ \E th \in Threads : ExitEvaluate(th, AppendExchange)
    \/ \E th \in Threads : LoopEntry(th)
    \/ \E th \in Threads : EntryEvaluate(th, AppendExchange)
    \/ \E th \in Threads : TimerWake(th)
    \/ \E th \in Threads : TimerDecide(th, AppendExchange)
    \/ \E th \in Threads : TimerAppend(th)
    \/ Toggle

SpecAppend == Init /\ [][NextAppend]_vars

\* C37: the watchlist never holds the same instrument twice.  The timer
\* tests `ticker in self.tickers` (line 761) and appends at line 779 with no
\* lock; toggle_ticker, called from the control surface in between, appends
\* the same ticker.
C37_NoDuplicate ==
    \A t \in Tickers : Count(tickers, t) <= 1

\* ------------------------------------------------- the on-demand refresh
RefreshExchange ==
    [CalmExchange EXCEPT !.oks = BOOLEAN,
                         !.recs = {<<>>, <<"BTC">>, <<"ETH", "BTC">>}]

\* A bot whose control surface is asked for refreshes by concurrent callers.
NextRefresh ==
    \/ ConstructRecover(RefreshExchange)
    \/ \E c \in Callers : RefreshCheck(c)
    \/ \E c \in Callers : RefreshSpawn(c)
    \/ \E c \in Callers : UpdateCoinRecommendations(c)
    \/ \E c \in Callers : UpdateReturn(c, RefreshExchange)
    \/ RecommendationWorker(RefreshExchange)

SpecRefresh == Init /\ [][NextRefresh]_vars

\* C11: at most one recommendation worker is in flight.  The test of
\* is_updating_recommendations and its assignment are two statements with no
\* lock: two callers pass the test before either sets the flag, and each
\* starts a worker.
C11_RefreshSingleFlight == workers <= 1

\* A worker thread that was started is scheduled and the call of the
\* recommender returns or raises: the step of the worker is taken in the end.
\* The callers of the control surface are under no obligation.
SpecWorker ==
    Init /\ [][NextRefresh]_vars
         /\ WF_vars(RecommendationWorker(RefreshExchange))

\* C39: after an on-demand refresh was started, is_updating_recommendations
\* is false again at some later point, whether the recommender answered or
\* raised; the next request then passes the test of the flag.
C39_FlagCleared ==
    (ev.kind = "refresh" /\ ev.out = "started")
        ~> ~is_updating_recommendations

\* The worker of the only refresh in flight has ended on an exception of the
\* recommender, and the flag is false.
C39_Witness ==
    /\ ev.kind = "worker" /\ ~ev.ok
    /\ workers = 0
    /\ ~is_updating_recommendations
====
